---- MODULE Spec2Model ----
(***************************************************************************)
(* AvlBinarySearchTree of dsa-practice/src/data-structures/graphs/graph.ts *)
(* as a state machine.  The tree is a heap of AvlNode objects addressed by *)
(* node ids; left/right hold ids or NULL.  Every private method is an      *)
(* operator that takes the heap and returns the heap it leaves behind,     *)
(* every public method is an action.                                       *)
(***************************************************************************)
EXTENDS Integers, Sequences, FiniteSets, TLC

\* Keys offered to insert/delete/search are 1..MaxKey.
MaxKey == 4
\* SpecPerm inserts permutations of subsets of 1..MaxPermKey.
MaxPermKey == 4

\* SpecQuery mixes the queries with inserts and deletes of keys 1..MaxQKey.
MaxQKey == 3

\* SpecTree starts from the AVL trees over the subsets of 1..MaxTreeKey.
MaxTreeKey == 7

\* SpecBalance hands balance and the rotations subtrees of up to MaxBalKey
\* nodes.
MaxBalKey == 8

\* SpecBst offers the keys 1..MaxBstKey to the plain BinarySearchTree and
\* makes inserts while its counter is below MaxBstSize.
MaxBstKey == 3
MaxBstSize == 4

\* Arbitrary trees for the validators: at most MaxCorruptNodes nodes, keys
\* 1..MaxCorruptKey.
MaxCorruptNodes == 3

MaxCorruptKey == 2

Keys == 1..MaxKey
TreeKeys == 1..MaxTreeKey
BstKeys == 1..MaxBstKey
PermKeys == 1..MaxPermKey
QKeys == 1..MaxQKey

\* The two insertion orders of the concrete scenarios, and the keys the
\* calls that follow them are given.
Scenarios == {<<5, 3, 7, 1, 9, 4, 6, 8>>, <<1, 2, 3, 4, 5>>}
ScenarioKeys == 1..9
AllKeys ==
  Keys \cup PermKeys \cup QKeys \cup ScenarioKeys \cup TreeKeys \cup (1..(MaxBalKey + 1))

\* null
NULL == 0

VARIABLES
  heap,   \* the AvlNode objects reachable from root: id -> [data, left, right, height]
  root,   \* AvlBinarySearchTree.root
  size,   \* AvlBinarySearchTree.size
  op,     \* the public method that ran last
  arg,    \* its argument
  ret,    \* its return value: <<>> for void, <<v>> for a value
  pre,    \* heap, root and size when that method was entered
  other,  \* SpecPerm: a second tree, [heap, root, size]
  permA,  \* SpecPerm: the keys inserted into the first tree, in this order
  permB,  \* SpecPerm: the keys inserted into the second tree, in this order
  done    \* SpecPerm: how many keys of permA and permB have been inserted

vars == <<heap, root, size, op, arg, ret, pre, other, permA, permB, done>>

MutatorOps == {"insert", "delete", "clear"}

QueryOps ==
  {"search", "findMin", "findMax", "kthSmallest", "lowestCommonAncestor",
   "inorderTraversal", "preorderTraversal", "postorderTraversal",
   "levelOrderTraversal", "height", "count", "isEmpty", "isValidBST",
   "isValidAVL", "getBalanceFactors"}

\* The private methods SpecBalance applies.
PrivateOps ==
  {"balance", "rotateRight", "rotateLeft", "rotateLeftRight", "rotateRightLeft"}

\* The fields of AvlNode and AvlBinarySearchTree, and what the bookkeeping
\* variables hold.
TypeOK ==
  /\ \A n \in DOMAIN heap :
       /\ n # NULL
       /\ heap[n].data \in AllKeys
       /\ heap[n].left \in DOMAIN heap \cup {NULL}
       /\ heap[n].right \in DOMAIN heap \cup {NULL}
       /\ heap[n].height \in Nat
  /\ root \in DOMAIN heap \cup {NULL}
  /\ size \in Nat
  /\ op \in {"new"} \cup MutatorOps \cup QueryOps \cup PrivateOps
  /\ (op \in PrivateOps => arg \in DOMAIN pre.heap /\ ret[1] \in DOMAIN heap)
  /\ (op \in {"insert", "delete", "search"} => arg \in AllKeys)
  /\ (op \in {"insert", "clear", "new"} => ret = <<>>)
  /\ (op \in {"delete", "search", "isEmpty", "isValidBST", "isValidAVL"} =>
        ret \in {<<TRUE>>, <<FALSE>>})
  /\ (op = "lowestCommonAncestor" => arg \in AllKeys \X AllKeys)
  /\ (op \in QueryOps => Len(ret) = 1)
  /\ DOMAIN pre = {"heap", "root", "size"}
  /\ DOMAIN other = {"heap", "root", "size"}
  /\ done \in 0..(Len(permA) + 1)
  /\ Len(permA) = Len(permB)

Max(a, b) == IF a > b THEN a ELSE b

EmptyHeap == [n \in {} |-> NULL]

\* new AvlNode(data): data, no children, height 0
AvlNode(data) == [data |-> data, left |-> NULL, right |-> NULL, height |-> 0]

\* The address a new object gets: the smallest id not in use.
NewId(h) ==
  CHOOSE n \in 1..(Cardinality(DOMAIN h) + 1) :
    /\ n \notin DOMAIN h
    /\ \A m \in 1..(Cardinality(DOMAIN h) + 1) : m \notin DOMAIN h => n <= m

\* An object no reference leads to any more leaves the heap.
Dropped(h, node) == [n \in DOMAIN h \ {node} |-> h[n]]

\* The default comparison function of the constructor.
compare(a, b) == IF a < b THEN -1 ELSE IF a > b THEN 1 ELSE 0

\* Faulty variant of getHeight: an absent node counts 0.
getHeight_nullIsZero(h, node) == IF node # NULL THEN h[node].height ELSE 0

getHeight(h, node) == IF node # NULL THEN h[node].height ELSE -1

\* Returns the heap with node.height refreshed.
updateHeight(h, node) ==
  [h EXCEPT ![node].height =
     1 + Max(getHeight(h, h[node].left), getHeight(h, h[node].right))]

getBalanceFactor(h, node) ==
  getHeight(h, h[node].left) - getHeight(h, h[node].right)

\* Rotations return [h |-> heap after, n |-> the returned node].

\* Faulty variant of rotateRight: the new subtree root's height is refreshed
\* before its new child's.
rotateRight_parentFirst(h, y) ==
  LET x  == h[y].left
      B  == h[x].right
      h1 == [h EXCEPT ![x].right = y]
      h2 == [h1 EXCEPT ![y].left = B]
      h3 == updateHeight(h2, x)
      h4 == updateHeight(h3, y)
  IN  [h |-> h4, n |-> x]

\* Faulty variant of rotateRight: y keeps x as its left child.
rotateRight_keepsLeft(h, y) ==
  LET x  == h[y].left
      h1 == [h EXCEPT ![x].right = y]
      h3 == updateHeight(h1, y)
      h4 == updateHeight(h3, x)
  IN  [h |-> h4, n |-> x]

rotateRight(h, y) ==
  LET x  == h[y].left
      B  == h[x].right
      h1 == [h EXCEPT ![x].right = y]
      h2 == [h1 EXCEPT ![y].left = B]
      h3 == updateHeight(h2, y)
      h4 == updateHeight(h3, x)
  IN  [h |-> h4, n |-> x]

\* Faulty variant of rotateLeft: x keeps y as its right child.
rotateLeft_keepsRight(h, x) ==
  LET y  == h[x].right
      h1 == [h EXCEPT ![y].left = x]
      h3 == updateHeight(h1, x)
      h4 == updateHeight(h3, y)
  IN  [h |-> h4, n |-> y]

\* Faulty variant of rotateLeft: the height of y, the new subtree root, is
\* recomputed before the height of x.
rotateLeft_parentFirst(h, x) ==
  LET y  == h[x].right
      B  == h[y].left
      h1 == [h EXCEPT ![y].left = x]
      h2 == [h1 EXCEPT ![x].right = B]
      h3 == updateHeight(h2, y)
      h4 == updateHeight(h3, x)
  IN  [h |-> h4, n |-> y]

rotateLeft(h, x) ==
  LET y  == h[x].right
      B  == h[y].left
      h1 == [h EXCEPT ![y].left = x]
      h2 == [h1 EXCEPT ![x].right = B]
      h3 == updateHeight(h2, x)
      h4 == updateHeight(h3, y)
  IN  [h |-> h4, n |-> y]

rotateLeftRight(h, node) ==
  LET r  == rotateLeft(h, h[node].left)
      h1 == [r.h EXCEPT ![node].left = r.n]
  IN  rotateRight(h1, node)

rotateRightLeft(h, node) ==
  LET r  == rotateRight(h, h[node].right)
      h1 == [r.h EXCEPT ![node].right = r.n]
  IN  rotateLeft(h1, node)

\* Faulty variant of balance: the height is refreshed, no rotation is made.
balance_noRotation(h, node) == [h |-> updateHeight(h, node), n |-> node]

\* Faulty variant of balance: a node is left alone until its children's
\* heights differ by 3.
balance_lateRotation(h, node) ==
  LET h1 == updateHeight(h, node)
      balanceFactor == getBalanceFactor(h1, node)
  IN  IF balanceFactor > 2
      THEN IF getBalanceFactor(h1, h1[node].left) < 0
           THEN rotateLeftRight(h1, node)
           ELSE rotateRight(h1, node)
      ELSE IF balanceFactor < -2
      THEN IF getBalanceFactor(h1, h1[node].right) > 0
           THEN rotateRightLeft(h1, node)
           ELSE rotateLeft(h1, node)
      ELSE [h |-> h1, n |-> node]

\* Faulty variant of balance: a node is rotated as soon as its children's
\* heights differ at all.
balance_eagerRotation(h, node) ==
  LET h1 == updateHeight(h, node)
      balanceFactor == getBalanceFactor(h1, node)
  IN  IF balanceFactor > 0
      THEN IF getBalanceFactor(h1, h1[node].left) < 0
           THEN rotateLeftRight(h1, node)
           ELSE rotateRight(h1, node)
      ELSE IF balanceFactor < 0
      THEN IF getBalanceFactor(h1, h1[node].right) > 0
           THEN rotateRightLeft(h1, node)
           ELSE rotateLeft(h1, node)
      ELSE [h |-> h1, n |-> node]

\* Faulty variant of balance: a heavy child with balance factor 0 is taken
\* for the double-rotation case.
balance_zeroIsDouble(h, node) ==
  LET h1 == updateHeight(h, node)
      balanceFactor == getBalanceFactor(h1, node)
  IN  IF balanceFactor > 1
      THEN IF getBalanceFactor(h1, h1[node].left) <= 0
           THEN rotateLeftRight(h1, node)
           ELSE rotateRight(h1, node)
      ELSE IF balanceFactor < -1
      THEN IF getBalanceFactor(h1, h1[node].right) >= 0
           THEN rotateRightLeft(h1, node)
           ELSE rotateLeft(h1, node)
      ELSE [h |-> h1, n |-> node]

balance(h, node) ==
  LET h1 == updateHeight(h, node)
      balanceFactor == getBalanceFactor(h1, node)
  IN  IF balanceFactor > 1
      THEN IF getBalanceFactor(h1, h1[node].left) < 0
           THEN rotateLeftRight(h1, node)
           ELSE rotateRight(h1, node)
      ELSE IF balanceFactor < -1
      THEN IF getBalanceFactor(h1, h1[node].right) > 0
           THEN rotateRightLeft(h1, node)
           ELSE rotateLeft(h1, node)
      ELSE [h |-> h1, n |-> node]

\* insertNode and deleteNode return [h |-> heap after, sz |-> this.size after,
\* n |-> the returned node].
RECURSIVE insertNode(_, _, _, _)

\* Faulty variant of insertNode: an equal key is not recognised and goes to
\* the right subtree.
insertNode_storesDuplicate(h, sz, node, data) ==
  IF node = NULL
  THEN LET id == NewId(h)
       IN  [h |-> h @@ (id :> AvlNode(data)), sz |-> sz, n |-> id]
  ELSE LET comparison == compare(data, h[node].data)
       IN  IF comparison < 0
           THEN LET r  == insertNode(h, sz, h[node].left, data)
                    h1 == [r.h EXCEPT ![node].left = r.n]
                    b  == balance(h1, node)
                IN  [h |-> b.h, sz |-> r.sz, n |-> b.n]
           ELSE LET r  == insertNode(h, sz, h[node].right, data)
                    h1 == [r.h EXCEPT ![node].right = r.n]
                    b  == balance(h1, node)
                IN  [h |-> b.h, sz |-> r.sz, n |-> b.n]

insertNode(h, sz, node, data) ==
  IF node = NULL
  THEN LET id == NewId(h)
       IN  [h |-> h @@ (id :> AvlNode(data)), sz |-> sz, n |-> id]
  ELSE LET comparison == compare(data, h[node].data)
       IN  IF comparison < 0
           THEN LET r  == insertNode(h, sz, h[node].left, data)
                    h1 == [r.h EXCEPT ![node].left = r.n]
                    b  == balance(h1, node)
                IN  [h |-> b.h, sz |-> r.sz, n |-> b.n]
           ELSE IF comparison > 0
           THEN LET r  == insertNode(h, sz, h[node].right, data)
                    h1 == [r.h EXCEPT ![node].right = r.n]
                    b  == balance(h1, node)
                IN  [h |-> b.h, sz |-> r.sz, n |-> b.n]
           ELSE [h |-> h, sz |-> sz - 1, n |-> node]

\* insert returns the tree after the call.
insert(h, sz, r, data) ==
  LET x == insertNode(h, sz, r, data)
  IN  [heap |-> x.h, root |-> x.n, size |-> x.sz + 1]

RECURSIVE searchNode(_, _, _)

\* Faulty variant of searchNode: the descent takes the wrong side.
searchNode_wrongSide(h, node, data) ==
  IF node = NULL
  THEN NULL
  ELSE LET comparison == compare(data, h[node].data)
       IN  IF comparison = 0 THEN node
           ELSE IF comparison < 0 THEN searchNode(h, h[node].right, data)
           ELSE searchNode(h, h[node].left, data)

searchNode(h, node, data) ==
  IF node = NULL
  THEN NULL
  ELSE LET comparison == compare(data, h[node].data)
       IN  IF comparison = 0 THEN node
           ELSE IF comparison < 0 THEN searchNode(h, h[node].left, data)
           ELSE searchNode(h, h[node].right, data)

search(h, r, data) == searchNode(h, r, data) # NULL

RECURSIVE findMinNode(_, _)

\* Faulty variant of findMinNode: it walks to the rightmost node.
findMinNode_rightmost(h, node) ==
  IF h[node].right # NULL THEN findMinNode(h, h[node].right) ELSE node

findMinNode(h, node) ==
  IF h[node].left # NULL THEN findMinNode(h, h[node].left) ELSE node

RECURSIVE deleteNode(_, _, _, _)

\* Faulty variant of deleteNode: the two-children case does not make up for
\* the second decrement of the size.
deleteNode_noCompensation(h, sz, node, data) ==
  IF node = NULL
  THEN [h |-> h, sz |-> sz, n |-> NULL]
  ELSE LET comparison == compare(data, h[node].data)
       IN  IF comparison < 0
           THEN LET r  == deleteNode(h, sz, h[node].left, data)
                    h1 == [r.h EXCEPT ![node].left = r.n]
                    b  == balance(h1, node)
                IN  [h |-> b.h, sz |-> r.sz, n |-> b.n]
           ELSE IF comparison > 0
           THEN LET r  == deleteNode(h, sz, h[node].right, data)
                    h1 == [r.h EXCEPT ![node].right = r.n]
                    b  == balance(h1, node)
                IN  [h |-> b.h, sz |-> r.sz, n |-> b.n]
           ELSE IF h[node].left = NULL /\ h[node].right = NULL
           THEN [h |-> Dropped(h, node), sz |-> sz - 1, n |-> NULL]
           ELSE IF h[node].left = NULL
           THEN [h |-> Dropped(h, node), sz |-> sz - 1, n |-> h[node].right]
           ELSE IF h[node].right = NULL
           THEN [h |-> Dropped(h, node), sz |-> sz - 1, n |-> h[node].left]
           ELSE LET successor == findMinNode(h, h[node].right)
                    h1 == [h EXCEPT ![node].data = h[successor].data]
                    r  == deleteNode(h1, sz - 1, h1[node].right, h1[successor].data)
                    h2 == [r.h EXCEPT ![node].right = r.n]
                    b  == balance(h2, node)
                IN  [h |-> b.h, sz |-> r.sz, n |-> b.n]

deleteNode(h, sz, node, data) ==
  IF node = NULL
  THEN [h |-> h, sz |-> sz, n |-> NULL]
  ELSE LET comparison == compare(data, h[node].data)
       IN  IF comparison < 0
           THEN LET r  == deleteNode(h, sz, h[node].left, data)
                    h1 == [r.h EXCEPT ![node].left = r.n]
                    b  == balance(h1, node)
                IN  [h |-> b.h, sz |-> r.sz, n |-> b.n]
           ELSE IF comparison > 0
           THEN LET r  == deleteNode(h, sz, h[node].right, data)
                    h1 == [r.h EXCEPT ![node].right = r.n]
                    b  == balance(h1, node)
                IN  [h |-> b.h, sz |-> r.sz, n |-> b.n]
           ELSE IF h[node].left = NULL /\ h[node].right = NULL
           THEN [h |-> Dropped(h, node), sz |-> sz - 1, n |-> NULL]
           ELSE IF h[node].left = NULL
           THEN [h |-> Dropped(h, node), sz |-> sz - 1, n |-> h[node].right]
           ELSE IF h[node].right = NULL
           THEN [h |-> Dropped(h, node), sz |-> sz - 1, n |-> h[node].left]
           ELSE LET successor == findMinNode(h, h[node].right)
                    h1 == [h EXCEPT ![node].data = h[successor].data]
                    r  == deleteNode(h1, sz - 1, h1[node].right, h1[successor].data)
                    h2 == [r.h EXCEPT ![node].right = r.n]
                    b  == balance(h2, node)
                IN  [h |-> b.h, sz |-> r.sz + 1, n |-> b.n]

\* Faulty variant of delete: the sizes are compared with <=.
delete_notGreater(h, sz, r, data) ==
  LET initialSize == sz
      x == deleteNode(h, sz, r, data)
  IN  [heap |-> x.h, root |-> x.n, size |-> x.sz, ret |-> x.sz <= initialSize]

\* delete returns the tree after the call and the value returned.
delete(h, sz, r, data) ==
  LET initialSize == sz
      x == deleteNode(h, sz, r, data)
  IN  [heap |-> x.h, root |-> x.n, size |-> x.sz, ret |-> x.sz < initialSize]

RECURSIVE inorderHelper(_, _, _)

\* Faulty variant of inorderHelper: the node is pushed before its left subtree.
inorderHelper_nodeFirst(h, node, result) ==
  IF node # NULL
  THEN LET r1 == Append(result, h[node].data)
           r2 == inorderHelper(h, h[node].left, r1)
       IN  inorderHelper(h, h[node].right, r2)
  ELSE result

inorderHelper(h, node, result) ==
  IF node # NULL
  THEN LET r1 == inorderHelper(h, h[node].left, result)
           r2 == Append(r1, h[node].data)
       IN  inorderHelper(h, h[node].right, r2)
  ELSE result

inorderTraversal(h, r) == inorderHelper(h, r, <<>>)

height(h, r) == getHeight(h, r)

count(sz) == sz

isEmpty(r) == r = NULL

RECURSIVE validateBST(_, _, _, _)

\* Faulty variant of validateBST: each node is compared with its parent only;
\* the bound inherited from further up is dropped on the way down.
validateBST_localOnly(h, node, min, max) ==
  IF node = NULL THEN TRUE
  ELSE IF \/ (min # NULL /\ compare(h[node].data, min) <= 0)
          \/ (max # NULL /\ compare(h[node].data, max) >= 0)
  THEN FALSE
  ELSE /\ validateBST(h, h[node].left, NULL, h[node].data)
       /\ validateBST(h, h[node].right, h[node].data, NULL)

validateBST(h, node, min, max) ==
  IF node = NULL THEN TRUE
  ELSE IF \/ (min # NULL /\ compare(h[node].data, min) <= 0)
          \/ (max # NULL /\ compare(h[node].data, max) >= 0)
  THEN FALSE
  ELSE /\ validateBST(h, h[node].left, min, h[node].data)
       /\ validateBST(h, h[node].right, h[node].data, max)

isValidBST(h, r) == validateBST(h, r, NULL, NULL)

RECURSIVE validateAVL(_, _)
validateAVL(h, node) ==
  IF node = NULL THEN TRUE
  ELSE LET balanceFactor == getBalanceFactor(h, node)
           expectedHeight ==
             1 + Max(getHeight(h, h[node].left), getHeight(h, h[node].right))
       IN  IF balanceFactor > 1 \/ balanceFactor < -1 THEN FALSE
           ELSE IF h[node].height # expectedHeight THEN FALSE
           ELSE validateAVL(h, h[node].left) /\ validateAVL(h, h[node].right)

isValidAVL(h, r) == validateAVL(h, r)

RECURSIVE findMaxNode(_, _)

\* Faulty variant of findMaxNode: it walks to the leftmost node.
findMaxNode_leftmost(h, node) ==
  IF h[node].left # NULL THEN findMaxNode(h, h[node].left) ELSE node

findMaxNode(h, node) ==
  IF h[node].right # NULL THEN findMaxNode(h, h[node].right) ELSE node

findMin(h, r) == IF r = NULL THEN NULL ELSE h[findMinNode(h, r)].data

findMax(h, r) == IF r = NULL THEN NULL ELSE h[findMaxNode(h, r)].data

\* result is the object { count, value } the helper writes to.
RECURSIVE kthSmallestHelper(_, _, _, _)
kthSmallestHelper(h, node, k, result) ==
  IF node = NULL \/ result.value # NULL
  THEN result
  ELSE LET r1 == kthSmallestHelper(h, h[node].left, k, result)
           r2 == [r1 EXCEPT !.count = @ + 1]
       IN  IF r2.count = k
           THEN [r2 EXCEPT !.value = h[node].data]
           ELSE kthSmallestHelper(h, h[node].right, k, r2)

\* Faulty variant of kthSmallest: the largest rank is turned away.
kthSmallest_excludesLast(h, r, sz, k) ==
  IF k <= 0 \/ k >= sz
  THEN NULL
  ELSE kthSmallestHelper(h, r, k, [count |-> 0, value |-> NULL]).value

kthSmallest(h, r, sz, k) ==
  IF k <= 0 \/ k > sz
  THEN NULL
  ELSE kthSmallestHelper(h, r, k, [count |-> 0, value |-> NULL]).value

RECURSIVE findLCA(_, _, _, _)

\* Faulty variant of findLCA: it goes left as soon as one value is smaller.
findLCA_eitherSide(h, node, val1, val2) ==
  IF node = NULL THEN NULL
  ELSE LET comp1 == compare(val1, h[node].data)
           comp2 == compare(val2, h[node].data)
       IN  IF comp1 < 0 \/ comp2 < 0
           THEN findLCA(h, h[node].left, val1, val2)
           ELSE IF comp1 > 0 /\ comp2 > 0
           THEN findLCA(h, h[node].right, val1, val2)
           ELSE node

\* Faulty variant of findLCA: a value equal to the node's key does not stop
\* the descent.
findLCA_passesEqual(h, node, val1, val2) ==
  IF node = NULL THEN NULL
  ELSE LET comp1 == compare(val1, h[node].data)
           comp2 == compare(val2, h[node].data)
       IN  IF comp1 <= 0 /\ comp2 <= 0
           THEN findLCA(h, h[node].left, val1, val2)
           ELSE IF comp1 >= 0 /\ comp2 >= 0
           THEN findLCA(h, h[node].right, val1, val2)
           ELSE node

findLCA(h, node, val1, val2) ==
  IF node = NULL THEN NULL
  ELSE LET comp1 == compare(val1, h[node].data)
           comp2 == compare(val2, h[node].data)
       IN  IF comp1 < 0 /\ comp2 < 0
           THEN findLCA(h, h[node].left, val1, val2)
           ELSE IF comp1 > 0 /\ comp2 > 0
           THEN findLCA(h, h[node].right, val1, val2)
           ELSE node

lowestCommonAncestor(h, r, val1, val2) ==
  LET node == findLCA(h, r, val1, val2)
  IN  IF node # NULL THEN h[node].data ELSE NULL

RECURSIVE preorderHelper(_, _, _)
preorderHelper(h, node, result) ==
  IF node # NULL
  THEN LET r1 == Append(result, h[node].data)
           r2 == preorderHelper(h, h[node].left, r1)
       IN  preorderHelper(h, h[node].right, r2)
  ELSE result

preorderTraversal(h, r) == preorderHelper(h, r, <<>>)

RECURSIVE postorderHelper(_, _, _)
postorderHelper(h, node, result) ==
  IF node # NULL
  THEN LET r1 == postorderHelper(h, h[node].left, result)
           r2 == postorderHelper(h, h[node].right, r1)
       IN  Append(r2, h[node].data)
  ELSE result

postorderTraversal(h, r) == postorderHelper(h, r, <<>>)

\* The while loop of levelOrderTraversal, one iteration per unfolding.
RECURSIVE levelOrderLoop(_, _, _)

\* Faulty variant of levelOrderLoop: the node is taken from the end of the
\* queue (pop) and not from its front (shift).
levelOrderLoop_popsLast(h, queue, result) ==
  IF Len(queue) > 0
  THEN LET node == queue[Len(queue)]
           q1   == SubSeq(queue, 1, Len(queue) - 1)
           r1   == Append(result, h[node].data)
           q2   == IF h[node].left # NULL THEN Append(q1, h[node].left) ELSE q1
           q3   == IF h[node].right # NULL THEN Append(q2, h[node].right) ELSE q2
       IN  levelOrderLoop(h, q3, r1)
  ELSE result

levelOrderLoop(h, queue, result) ==
  IF Len(queue) > 0
  THEN LET node == Head(queue)
           q1   == Tail(queue)
           r1   == Append(result, h[node].data)
           q2   == IF h[node].left # NULL THEN Append(q1, h[node].left) ELSE q1
           q3   == IF h[node].right # NULL THEN Append(q2, h[node].right) ELSE q2
       IN  levelOrderLoop(h, q3, r1)
  ELSE result

levelOrderTraversal(h, r) ==
  IF r = NULL THEN <<>> ELSE levelOrderLoop(h, <<r>>, <<>>)

RECURSIVE collectBalanceFactors(_, _, _)
collectBalanceFactors(h, node, result) ==
  IF node # NULL
  THEN LET r1 == Append(result, [data |-> h[node].data,
                                 balance |-> getBalanceFactor(h, node)])
           r2 == collectBalanceFactors(h, h[node].left, r1)
       IN  collectBalanceFactors(h, h[node].right, r2)
  ELSE result

getBalanceFactors(h, r) == collectBalanceFactors(h, r, <<>>)

----------------------------------------------------------------------------
\* The control flow of the recursions and loops, run on a budget: each
\* operator follows the calls or iterations the method makes and gives up
\* when the budget is spent, so that "it ends" is a value and not the end of
\* an evaluation.

\* insertNode and searchNode from node for data: TRUE if the descent ends
\* at an absent child or at the key after visiting at most fuel nodes.
RECURSIVE descentEnds(_, _, _, _)
descentEnds(h, node, data, fuel) ==
  IF node = NULL THEN TRUE
  ELSE IF fuel = 0 THEN FALSE
  ELSE LET comparison == compare(data, h[node].data)
       IN  IF comparison < 0 THEN descentEnds(h, h[node].left, data, fuel - 1)
           ELSE IF comparison > 0 THEN descentEnds(h, h[node].right, data, fuel - 1)
           ELSE TRUE

\* The while loop of findMinNode: TRUE if it ends within fuel iterations.
RECURSIVE findMinNodeEnds(_, _, _)
findMinNodeEnds(h, node, fuel) ==
  IF h[node].left = NULL THEN TRUE
  ELSE IF fuel = 0 THEN FALSE
  ELSE findMinNodeEnds(h, h[node].left, fuel - 1)

\* The while loop of findMaxNode.
RECURSIVE findMaxNodeEnds(_, _, _)
findMaxNodeEnds(h, node, fuel) ==
  IF h[node].right = NULL THEN TRUE
  ELSE IF fuel = 0 THEN FALSE
  ELSE findMaxNodeEnds(h, h[node].right, fuel - 1)

\* deleteNode from node for data: the descent, and in the two-children case
\* the findMinNode loop and the descent for the successor's key.
RECURSIVE deleteNodeEnds(_, _, _, _)
deleteNodeEnds(h, node, data, fuel) ==
  IF node = NULL THEN TRUE
  ELSE IF fuel = 0 THEN FALSE
  ELSE LET comparison == compare(data, h[node].data)
       IN  IF comparison < 0 THEN deleteNodeEnds(h, h[node].left, data, fuel - 1)
           ELSE IF comparison > 0 THEN deleteNodeEnds(h, h[node].right, data, fuel - 1)
           ELSE IF h[node].left = NULL \/ h[node].right = NULL THEN TRUE
           ELSE IF ~findMinNodeEnds(h, h[node].right, fuel - 1) THEN FALSE
           ELSE LET successor == findMinNode(h, h[node].right)
                    h1 == [h EXCEPT ![node].data = h[successor].data]
                IN  deleteNodeEnds(h1, h1[node].right, h1[successor].data, fuel - 1)

\* findLCA from node.
RECURSIVE findLCAEnds(_, _, _, _, _)
findLCAEnds(h, node, val1, val2, fuel) ==
  IF node = NULL THEN TRUE
  ELSE IF fuel = 0 THEN FALSE
  ELSE LET comp1 == compare(val1, h[node].data)
           comp2 == compare(val2, h[node].data)
       IN  IF comp1 < 0 /\ comp2 < 0
           THEN findLCAEnds(h, h[node].left, val1, val2, fuel - 1)
           ELSE IF comp1 > 0 /\ comp2 > 0
           THEN findLCAEnds(h, h[node].right, val1, val2, fuel - 1)
           ELSE TRUE

\* The recursion of inorderHelper, preorderHelper, postorderHelper and
\* collectBalanceFactors, which visits the left and then the right subtree
\* of every node: the budget left over after the walk from node, -1 if more
\* than fuel nodes are visited.
RECURSIVE walkBudgetLeft(_, _, _)
walkBudgetLeft(h, node, fuel) ==
  IF node = NULL THEN fuel
  ELSE IF fuel = 0 THEN -1
  ELSE LET f1 == walkBudgetLeft(h, h[node].left, fuel - 1)
       IN  IF f1 < 0 THEN -1 ELSE walkBudgetLeft(h, h[node].right, f1)

\* The recursion of kthSmallestHelper, one unit of budget for every call on
\* a node: a call returns at once when the value is already found, and does
\* not go right when its own node is the k-th.  Returns the result record
\* and the budget left, -1 if more than fuel calls are made.
RECURSIVE kthSmallestHelperBudget(_, _, _, _, _)
kthSmallestHelperBudget(h, node, k, result, fuel) ==
  IF node = NULL THEN [result |-> result, fuel |-> fuel]
  ELSE IF fuel <= 0 THEN [result |-> result, fuel |-> -1]
  ELSE IF result.value # NULL THEN [result |-> result, fuel |-> fuel - 1]
  ELSE LET l  == kthSmallestHelperBudget(h, h[node].left, k, result, fuel - 1)
           r2 == [l.result EXCEPT !.count = @ + 1]
       IN  IF l.fuel < 0 THEN l
           ELSE IF r2.count = k
           THEN [result |-> [r2 EXCEPT !.value = h[node].data], fuel |-> l.fuel]
           ELSE kthSmallestHelperBudget(h, h[node].right, k, r2, l.fuel)

\* The recursion of validateBST, one unit of budget for every call on a
\* node: a node out of its bounds returns false at once, and the right
\* subtree is not visited when the left one is not valid.  Returns the
\* answer and the budget left, -1 if more than fuel calls are made.
RECURSIVE validateBSTBudget(_, _, _, _, _)
validateBSTBudget(h, node, min, max, fuel) ==
  IF node = NULL THEN [ok |-> TRUE, fuel |-> fuel]
  ELSE IF fuel <= 0 THEN [ok |-> FALSE, fuel |-> -1]
  ELSE IF \/ (min # NULL /\ compare(h[node].data, min) <= 0)
          \/ (max # NULL /\ compare(h[node].data, max) >= 0)
  THEN [ok |-> FALSE, fuel |-> fuel - 1]
  ELSE LET l == validateBSTBudget(h, h[node].left, min, h[node].data, fuel - 1)
       IN  IF l.fuel < 0 \/ ~l.ok THEN l
           ELSE validateBSTBudget(h, h[node].right, h[node].data, max, l.fuel)

\* The recursion of validateAVL, in the same way: a node with a wrong
\* balance factor or a wrong cached height returns false at once.
RECURSIVE validateAVLBudget(_, _, _)
validateAVLBudget(h, node, fuel) ==
  IF node = NULL THEN [ok |-> TRUE, fuel |-> fuel]
  ELSE IF fuel <= 0 THEN [ok |-> FALSE, fuel |-> -1]
  ELSE LET balanceFactor == getBalanceFactor(h, node)
           expectedHeight ==
             1 + Max(getHeight(h, h[node].left), getHeight(h, h[node].right))
       IN  IF balanceFactor > 1 \/ balanceFactor < -1
           THEN [ok |-> FALSE, fuel |-> fuel - 1]
           ELSE IF h[node].height # expectedHeight
           THEN [ok |-> FALSE, fuel |-> fuel - 1]
           ELSE LET l == validateAVLBudget(h, h[node].left, fuel - 1)
                IN  IF l.fuel < 0 \/ ~l.ok THEN l
                    ELSE validateAVLBudget(h, h[node].right, l.fuel)

\* The while loop of levelOrderTraversal: TRUE if the queue is empty after
\* at most fuel iterations.
RECURSIVE levelOrderLoopEnds(_, _, _)
levelOrderLoopEnds(h, queue, fuel) ==
  IF Len(queue) = 0 THEN TRUE
  ELSE IF fuel = 0 THEN FALSE
  ELSE LET node == Head(queue)
           q1   == Tail(queue)
           q2   == IF h[node].left # NULL THEN Append(q1, h[node].left) ELSE q1
           q3   == IF h[node].right # NULL THEN Append(q2, h[node].right) ELSE q2
       IN  levelOrderLoopEnds(h, q3, fuel - 1)

----------------------------------------------------------------------------
\* The state machine: one tree, any public method at any time.

NewTree == [heap |-> EmptyHeap, root |-> NULL, size |-> 0]

Init ==
  /\ heap = EmptyHeap
  /\ root = NULL
  /\ size = 0
  /\ op = "new"
  /\ arg = NULL
  /\ ret = <<>>
  /\ pre = NewTree
  /\ other = NewTree
  /\ permA = <<>>
  /\ permB = <<>>
  /\ done = 0

Entered == [heap |-> heap, root |-> root, size |-> size]

Insert(data) ==
  LET t == insert(heap, size, root, data)
  IN  /\ heap' = t.heap
      /\ root' = t.root
      /\ size' = t.size
      /\ op' = "insert"
      /\ arg' = data
      /\ ret' = <<>>
      /\ pre' = Entered

Delete(data) ==
  LET t == delete(heap, size, root, data)
  IN  /\ heap' = t.heap
      /\ root' = t.root
      /\ size' = t.size
      /\ op' = "delete"
      /\ arg' = data
      /\ ret' = <<t.ret>>
      /\ pre' = Entered

Search(data) ==
  /\ op' = "search"
  /\ arg' = data
  /\ ret' = <<search(heap, root, data)>>
  /\ pre' = Entered
  /\ UNCHANGED <<heap, root, size>>

\* Faulty variant of Clear: the root is dropped, the count is kept.
Clear_keepsSize ==
  /\ heap' = EmptyHeap
  /\ root' = NULL
  /\ size' = size
  /\ op' = "clear"
  /\ arg' = NULL
  /\ ret' = <<>>
  /\ pre' = Entered

Clear ==
  /\ heap' = EmptyHeap
  /\ root' = NULL
  /\ size' = 0
  /\ op' = "clear"
  /\ arg' = NULL
  /\ ret' = <<>>
  /\ pre' = Entered

Next ==
  \/ \E data \in Keys : Insert(data) /\ UNCHANGED <<other, permA, permB, done>>
  \/ \E data \in Keys : Delete(data) /\ UNCHANGED <<other, permA, permB, done>>
  \/ \E data \in Keys : Search(data) /\ UNCHANGED <<other, permA, permB, done>>
  \/ Clear /\ UNCHANGED <<other, permA, permB, done>>

Spec == Init /\ [][Next]_vars

----------------------------------------------------------------------------
\* SpecPerm: two new trees receive the same distinct keys, each in an order
\* of its own, one key per step; there are no deletes.

Perms(K) ==
  {p \in [1..Cardinality(K) -> K] : \A i, j \in 1..Cardinality(K) : p[i] = p[j] => i = j}

InitPerm ==
  /\ heap = EmptyHeap
  /\ root = NULL
  /\ size = 0
  /\ op = "new"
  /\ arg = NULL
  /\ ret = <<>>
  /\ pre = NewTree
  /\ other = NewTree
  /\ done = 0
  /\ \E K \in SUBSET PermKeys :
       /\ permA \in Perms(K)
       /\ permB \in Perms(K)

InsertBoth ==
  /\ done < Len(permA)
  /\ Insert(permA[done + 1])
  /\ other' = insert(other.heap, other.size, other.root, permB[done + 1])
  /\ done' = done + 1
  /\ UNCHANGED <<permA, permB>>

NextPerm == InsertBoth

SpecPerm == InitPerm /\ [][NextPerm]_vars

----------------------------------------------------------------------------
\* The methods that only read the tree.  A call records its name, argument
\* and return value; the code of these methods assigns to no field of the
\* tree or of a node.

Query(name, a, r) ==
  /\ op' = name
  /\ arg' = a
  /\ ret' = <<r>>
  /\ pre' = Entered
  /\ UNCHANGED <<heap, root, size>>

\* Faulty variant of FindMin: the loop walks with this.root itself.
FindMin_movesRoot ==
  /\ op' = "findMin"
  /\ arg' = NULL
  /\ ret' = <<findMin(heap, root)>>
  /\ pre' = Entered
  /\ root' = IF root = NULL THEN NULL ELSE findMinNode(heap, root)
  /\ UNCHANGED <<heap, size>>

FindMin == Query("findMin", NULL, findMin(heap, root))

FindMax == Query("findMax", NULL, findMax(heap, root))

KthSmallest(k) == Query("kthSmallest", k, kthSmallest(heap, root, size, k))

LowestCommonAncestor(val1, val2) ==
  Query("lowestCommonAncestor", <<val1, val2>>,
        lowestCommonAncestor(heap, root, val1, val2))

InorderTraversal == Query("inorderTraversal", NULL, inorderTraversal(heap, root))

PreorderTraversal == Query("preorderTraversal", NULL, preorderTraversal(heap, root))

PostorderTraversal == Query("postorderTraversal", NULL, postorderTraversal(heap, root))

LevelOrderTraversal ==
  Query("levelOrderTraversal", NULL, levelOrderTraversal(heap, root))

Height == Query("height", NULL, height(heap, root))

Count == Query("count", NULL, count(size))

IsEmpty == Query("isEmpty", NULL, isEmpty(root))

IsValidBST == Query("isValidBST", NULL, isValidBST(heap, root))

IsValidAVL == Query("isValidAVL", NULL, isValidAVL(heap, root))

GetBalanceFactors == Query("getBalanceFactors", NULL, getBalanceFactors(heap, root))

\* Any one query, its arguments taken from K (ranks from -1 to one past K).
AnyQuery(K) ==
  \/ \E data \in K : Search(data)
  \/ FindMin
  \/ FindMax
  \/ \E k \in {-1, 0} \cup K \cup {Cardinality(K) + 1} : KthSmallest(k)
  \/ \E val1, val2 \in K : LowestCommonAncestor(val1, val2)
  \/ InorderTraversal
  \/ PreorderTraversal
  \/ PostorderTraversal
  \/ LevelOrderTraversal
  \/ Height
  \/ Count
  \/ IsEmpty
  \/ IsValidBST
  \/ IsValidAVL
  \/ GetBalanceFactors

----------------------------------------------------------------------------
\* SpecQuery: one tree, any public method at any time, keys 1..MaxQKey.

NextQuery ==
  \/ \E data \in QKeys : Insert(data) /\ UNCHANGED <<other, permA, permB, done>>
  \/ \E data \in QKeys : Delete(data) /\ UNCHANGED <<other, permA, permB, done>>
  \/ Clear /\ UNCHANGED <<other, permA, permB, done>>
  \/ AnyQuery(QKeys) /\ UNCHANGED <<other, permA, permB, done>>

SpecQuery == Init /\ [][NextQuery]_vars

----------------------------------------------------------------------------
\* SpecScenario: a new tree receives the keys of one of the two scenarios in
\* their order (permA is the order, done the number of calls made); once all
\* are in, one delete may follow; queries may be made at any time.

InitScenario ==
  /\ heap = EmptyHeap
  /\ root = NULL
  /\ size = 0
  /\ op = "new"
  /\ arg = NULL
  /\ ret = <<>>
  /\ pre = NewTree
  /\ other = NewTree
  /\ done = 0
  /\ permA \in Scenarios
  /\ permB = permA

ScenarioInsert ==
  /\ done < Len(permA)
  /\ Insert(permA[done + 1])
  /\ done' = done + 1
  /\ UNCHANGED <<other, permA, permB>>

ScenarioDelete ==
  /\ done = Len(permA)
  /\ \E data \in ScenarioKeys : Delete(data)
  /\ done' = done + 1
  /\ UNCHANGED <<other, permA, permB>>

ScenarioQuery ==
  /\ AnyQuery(ScenarioKeys)
  /\ UNCHANGED <<other, permA, permB, done>>

NextScenario == ScenarioInsert \/ ScenarioDelete \/ ScenarioQuery

SpecScenario == InitScenario /\ [][NextScenario]_vars

----------------------------------------------------------------------------
\* What the properties are stated with.

\* The nodes reachable from node along left and right.
RECURSIVE Closure(_, _)
Closure(h, N) ==
  LET M == N \cup (({h[n].left : n \in N} \cup {h[n].right : n \in N}) \ {NULL})
  IN  IF M = N THEN N ELSE Closure(h, M)

Reach(h, node) == IF node = NULL THEN {} ELSE Closure(h, {node})

\* The keys stored in the subtree of node.
KeysUnder(h, node) == {h[n].data : n \in Reach(h, node)}

\* The set of keys a tree stands for.
AbsSet(t) == KeysUnder(t.heap, t.root)

Now == [heap |-> heap, root |-> root, size |-> size]

\* The number of edges on the longest path from node down to a leaf.
RECURSIVE TrueHeight(_, _)
TrueHeight(h, node) ==
  IF node = NULL THEN -1
  ELSE 1 + Max(TrueHeight(h, h[node].left), TrueHeight(h, h[node].right))

StrictlyAscending(s) == \A i \in 1..(Len(s) - 1) : s[i] < s[i + 1]

\* The keys of K in ascending order.
RECURSIVE SortedSeq(_)
SortedSeq(K) ==
  IF K = {} THEN <<>>
  ELSE LET m == CHOOSE x \in K : \A y \in K : x <= y
       IN  <<m>> \o SortedSeq(K \ {m})

\* The node of the entered tree that holds the argument, NULL if none does.
Holder ==
  IF arg \in AbsSet(pre)
  THEN CHOOSE n \in Reach(pre.heap, pre.root) : pre.heap[n].data = arg
  ELSE NULL

ChildrenOfHolder ==
  Cardinality({pre.heap[Holder].left, pre.heap[Holder].right} \ {NULL})

\* The fewest nodes an AVL tree of height ht can have.
RECURSIVE MinAvlNodes(_)
MinAvlNodes(ht) ==
  IF ht < 0 THEN 0
  ELSE IF ht = 0 THEN 1
  ELSE 1 + MinAvlNodes(ht - 1) + MinAvlNodes(ht - 2)

\* Log2Milli[m] = floor(1000 * log2(m)), m = 1..16.
Log2Milli ==
  <<0, 1000, 1584, 2000, 2321, 2584, 2807, 3000,
    3169, 3321, 3459, 3584, 3700, 3807, 3906, 4000>>

\* ht <= 1.44 * log2(n + 2) - 1, decided in integers: it follows from
\* 100000 * (ht + 1) <= 144 * floor(1000 * log2(n + 2)).
WithinLogBound(ht, n) == 100000 * (ht + 1) <= 144 * Log2Milli[n + 2]

----------------------------------------------------------------------------
\* SpecTree: the tree is any AVL tree over any subset of 1..MaxTreeKey, as
\* inserts and deletes leave it (search-tree order, heights differing by at
\* most 1 at every node, cached heights correct, count = number of nodes);
\* one insert or delete is then made on it.  A node's address is its key:
\* which address a node has plays no part in any method.

\* The tree with key k at the root above the trees L and R.
Join(L, k, R) ==
  [h |-> (k :> [data   |-> k,
                left   |-> L.n,
                right  |-> R.n,
                height |-> 1 + Max(getHeight(L.h, L.n), getHeight(R.h, R.n))])
           @@ L.h @@ R.h,
   n |-> k]

\* The pairs of AVL trees over s[1..i-1] and s[i+1..Len(s)] whose heights
\* differ by at most d.
RECURSIVE AvlTreesOver(_)
AvlPairs(s, i, d) ==
  {p \in AvlTreesOver(SubSeq(s, 1, i - 1)) \X AvlTreesOver(SubSeq(s, i + 1, Len(s))) :
     LET bf == getHeight(p[1].h, p[1].n) - getHeight(p[2].h, p[2].n)
     IN  -d <= bf /\ bf <= d}

\* The AVL trees whose in-order key sequence is s, [h |-> nodes, n |-> root].
AvlTreesOver(s) ==
  IF s = <<>>
  THEN {[h |-> EmptyHeap, n |-> NULL]}
  ELSE UNION {{Join(p[1], s[i], p[2]) : p \in AvlPairs(s, i, 1)} : i \in 1..Len(s)}

InitTree ==
  /\ \E K \in SUBSET TreeKeys :
       \E t \in AvlTreesOver(SortedSeq(K)) :
         /\ heap = t.h
         /\ root = t.n
         /\ size = Cardinality(K)
         /\ pre = [heap |-> t.h, root |-> t.n, size |-> Cardinality(K)]
  /\ op = "new"
  /\ arg = NULL
  /\ ret = <<>>
  /\ other = NewTree
  /\ permA = <<>>
  /\ permB = <<>>
  /\ done = 0

TreeInsert ==
  /\ done = 0
  /\ \E data \in TreeKeys : Insert(data)
  /\ done' = 1
  /\ UNCHANGED <<other, permA, permB>>

TreeDelete ==
  /\ done = 0
  /\ \E data \in TreeKeys : Delete(data)
  /\ done' = 1
  /\ UNCHANGED <<other, permA, permB>>

NextTree == TreeInsert \/ TreeDelete

SpecTree == InitTree /\ [][NextTree]_vars

\* The same trees, each asked once for the lowest common ancestor of a pair
\* of keys of 1..MaxTreeKey, stored in it or not.
TreeLowestCommonAncestor ==
  /\ done = 0
  /\ \E val1, val2 \in TreeKeys : LowestCommonAncestor(val1, val2)
  /\ done' = 1
  /\ UNCHANGED <<other, permA, permB>>

NextLca == TreeLowestCommonAncestor

SpecLca == InitTree /\ [][NextLca]_vars

----------------------------------------------------------------------------
\* SpecBalance: balance and the four rotations as functions of their input.
\* The input is a node over two AVL subtrees whose heights differ by at
\* most 2, as insertNode and deleteNode hand it over: the subtrees are valid
\* with correct cached heights, the node's own cached height is the one it
\* had before the recursive call changed a subtree.  The node hangs below a
\* parent, which stands for the rest of the tree; arg is the node handed
\* over, ret the node returned.

\* The sequence 1, ..., n.
Iota(n) == [j \in 1..n |-> j]

\* The heights node t.n can have cached when it is handed to balance, T
\* being its true height.  insertNode hands it over with the height from
\* before the insertion: T - 1 when the subtree inserted into grew (it is then
\* the strictly taller one, and a fresh leaf or not evenly balanced), T when
\* it did not.  deleteNode hands it over with the height from before the
\* deletion: T + 1 when the subtree deleted from shrank (the two are then
\* equally high), T when the node's height did not change (as when the
\* key is not found).
CachedHeights(t) ==
  LET l    == t.h[t.n].left
      r    == t.h[t.n].right
      hl   == getHeight(t.h, l)
      hr   == getHeight(t.h, r)
      T    == 1 + Max(hl, hr)
      tall == IF hl > hr THEN l ELSE r
  IN  (IF hl = hr THEN {T + 1} ELSE {})
        \cup {T}
        \cup (IF hl # hr /\ (t.h[tall].height = 0 \/ getBalanceFactor(t.h, tall) # 0)
              THEN {T - 1} ELSE {})

BalanceInputs ==
  UNION {UNION {{[t EXCEPT !.h[t.n].height = stale] : stale \in CachedHeights(t)} :
                  t \in {Join(p[1], i, p[2]) : p \in AvlPairs(Iota(n), i, 2)}} :
           <<n, i>> \in {q \in (1..MaxBalKey) \X (1..MaxBalKey) : q[2] <= q[1]}}

InitBalance ==
  /\ \E t \in BalanceInputs :
       LET parent == Cardinality(DOMAIN t.h) + 1
           h0 == (parent :> [data |-> parent, left |-> t.n, right |-> NULL,
                             height |-> t.h[t.n].height + 1]) @@ t.h
       IN  \* The counter is one below the number of nodes while insert runs
           \* (it is incremented after insertNode returns) and while
           \* deleteNode removes the successor of a node with two children.
           \E sz \in {parent - 1, parent} :
             /\ heap = h0
             /\ root = parent
             /\ size = sz
             /\ arg = t.n
             /\ pre = [heap |-> h0, root |-> parent, size |-> sz]
  /\ op = "new"
  /\ ret = <<>>
  /\ other = NewTree
  /\ permA = <<>>
  /\ permB = <<>>
  /\ done = 0

\* A private method applied to the node arg: r is what it returns.
Applied(name, r) ==
  /\ heap' = r.h
  /\ ret' = <<r.n>>
  /\ op' = name
  /\ pre' = Entered
  /\ UNCHANGED <<root, size, arg, other, permA, permB, done>>

Balance ==
  /\ op = "new"
  /\ Applied("balance", balance(heap, arg))

RotateRight ==
  /\ op = "new"
  /\ heap[arg].left # NULL
  /\ Applied("rotateRight", rotateRight(heap, arg))

RotateLeft ==
  /\ op = "new"
  /\ heap[arg].right # NULL
  /\ Applied("rotateLeft", rotateLeft(heap, arg))

RotateLeftRight ==
  /\ op = "new"
  /\ heap[arg].left # NULL
  /\ heap[heap[arg].left].right # NULL
  /\ Applied("rotateLeftRight", rotateLeftRight(heap, arg))

RotateRightLeft ==
  /\ op = "new"
  /\ heap[arg].right # NULL
  /\ heap[heap[arg].right].left # NULL
  /\ Applied("rotateRightLeft", rotateRightLeft(heap, arg))

NextBalance ==
  Balance \/ RotateRight \/ RotateLeft \/ RotateLeftRight \/ RotateRightLeft

SpecBalance == InitBalance /\ [][NextBalance]_vars

----------------------------------------------------------------------------
\* BinarySearchTree, the plain search tree of the same file: TreeNode
\* objects without a cached height, no rebalancing.  The private methods
\* carry the prefix bst here, since both classes use the same names.

\* new TreeNode(data)
TreeNode(data) == [data |-> data, left |-> NULL, right |-> NULL]

\* insertNode returns [h |-> heap after, n |-> the returned node].
RECURSIVE bstInsertNode(_, _, _)
bstInsertNode(h, node, data) ==
  IF node = NULL
  THEN LET id == NewId(h)
       IN  [h |-> h @@ (id :> TreeNode(data)), n |-> id]
  ELSE LET comparison == compare(data, h[node].data)
       IN  IF comparison < 0
           THEN LET r == bstInsertNode(h, h[node].left, data)
                IN  [h |-> [r.h EXCEPT ![node].left = r.n], n |-> node]
           ELSE IF comparison > 0
           THEN LET r == bstInsertNode(h, h[node].right, data)
                IN  [h |-> [r.h EXCEPT ![node].right = r.n], n |-> node]
           ELSE [h |-> h, n |-> node]

bstInsert(h, sz, r, data) ==
  LET x == bstInsertNode(h, r, data)
  IN  [heap |-> x.h, root |-> x.n, size |-> sz + 1]

\* A call of insert with the argument list args: the method has the one
\* parameter data, which is bound to the first argument; no parameter
\* receives a further argument.
bstInsertCall(h, sz, r, args) == bstInsert(h, sz, r, args[1])

RECURSIVE bstSearchNode(_, _, _)
bstSearchNode(h, node, data) ==
  IF node = NULL THEN NULL
  ELSE LET comparison == compare(data, h[node].data)
       IN  IF comparison = 0 THEN node
           ELSE IF comparison < 0 THEN bstSearchNode(h, h[node].left, data)
           ELSE bstSearchNode(h, h[node].right, data)

bstSearch(h, r, data) == bstSearchNode(h, r, data) # NULL

RECURSIVE bstFindMinNode(_, _)
bstFindMinNode(h, node) ==
  IF h[node].left # NULL THEN bstFindMinNode(h, h[node].left) ELSE node

RECURSIVE bstFindMaxNode(_, _)
bstFindMaxNode(h, node) ==
  IF h[node].right # NULL THEN bstFindMaxNode(h, h[node].right) ELSE node

bstFindMin(h, r) == IF r = NULL THEN NULL ELSE h[bstFindMinNode(h, r)].data

bstFindMax(h, r) == IF r = NULL THEN NULL ELSE h[bstFindMaxNode(h, r)].data

\* deleteNode returns [h |-> heap after, sz |-> this.size after, n |-> the
\* returned node].
RECURSIVE bstDeleteNode(_, _, _, _)

\* Faulty variant of bstDeleteNode: with two children the successor's key is
\* copied but the successor is not deleted from the right subtree.
bstDeleteNode_keepsSuccessor(h, sz, node, data) ==
  IF node = NULL
  THEN [h |-> h, sz |-> sz, n |-> NULL]
  ELSE LET comparison == compare(data, h[node].data)
       IN  IF comparison < 0
           THEN LET r == bstDeleteNode(h, sz, h[node].left, data)
                IN  [h |-> [r.h EXCEPT ![node].left = r.n], sz |-> r.sz, n |-> node]
           ELSE IF comparison > 0
           THEN LET r == bstDeleteNode(h, sz, h[node].right, data)
                IN  [h |-> [r.h EXCEPT ![node].right = r.n], sz |-> r.sz, n |-> node]
           ELSE IF h[node].left = NULL /\ h[node].right = NULL
           THEN [h |-> Dropped(h, node), sz |-> sz - 1, n |-> NULL]
           ELSE IF h[node].left = NULL
           THEN [h |-> Dropped(h, node), sz |-> sz - 1, n |-> h[node].right]
           ELSE IF h[node].right = NULL
           THEN [h |-> Dropped(h, node), sz |-> sz - 1, n |-> h[node].left]
           ELSE LET successor == bstFindMinNode(h, h[node].right)
                    h1 == [h EXCEPT ![node].data = h[successor].data]
                IN  [h |-> h1, sz |-> sz - 1, n |-> node]

bstDeleteNode(h, sz, node, data) ==
  IF node = NULL
  THEN [h |-> h, sz |-> sz, n |-> NULL]
  ELSE LET comparison == compare(data, h[node].data)
       IN  IF comparison < 0
           THEN LET r == bstDeleteNode(h, sz, h[node].left, data)
                IN  [h |-> [r.h EXCEPT ![node].left = r.n], sz |-> r.sz, n |-> node]
           ELSE IF comparison > 0
           THEN LET r == bstDeleteNode(h, sz, h[node].right, data)
                IN  [h |-> [r.h EXCEPT ![node].right = r.n], sz |-> r.sz, n |-> node]
           ELSE IF h[node].left = NULL /\ h[node].right = NULL
           THEN [h |-> Dropped(h, node), sz |-> sz - 1, n |-> NULL]
           ELSE IF h[node].left = NULL
           THEN [h |-> Dropped(h, node), sz |-> sz - 1, n |-> h[node].right]
           ELSE IF h[node].right = NULL
           THEN [h |-> Dropped(h, node), sz |-> sz - 1, n |-> h[node].left]
           ELSE LET successor == bstFindMinNode(h, h[node].right)
                    h1 == [h EXCEPT ![node].data = h[successor].data]
                    r  == bstDeleteNode(h1, sz - 1, h1[node].right, h1[successor].data)
                    h2 == [r.h EXCEPT ![node].right = r.n]
                IN  [h |-> h2, sz |-> r.sz + 1, n |-> node]

bstDelete(h, sz, r, data) ==
  LET initialSize == sz
      x == bstDeleteNode(h, sz, r, data)
  IN  [heap |-> x.h, root |-> x.n, size |-> x.sz, ret |-> x.sz < initialSize]

RECURSIVE bstInorderHelper(_, _, _)
bstInorderHelper(h, node, result) ==
  IF node # NULL
  THEN LET r1 == bstInorderHelper(h, h[node].left, result)
           r2 == Append(r1, h[node].data)
       IN  bstInorderHelper(h, h[node].right, r2)
  ELSE result

bstInorderTraversal(h, r) == bstInorderHelper(h, r, <<>>)

bstCount(sz) == sz

bstIsEmpty(r) == r = NULL

\* The fields of TreeNode and BinarySearchTree.
BstTypeOK ==
  /\ \A n \in DOMAIN heap :
       /\ n # NULL
       /\ DOMAIN heap[n] = {"data", "left", "right"}
       /\ heap[n].left \in DOMAIN heap \cup {NULL}
       /\ heap[n].right \in DOMAIN heap \cup {NULL}
  /\ root \in DOMAIN heap \cup {NULL}
  /\ size \in Nat

\* SpecBst: one BinarySearchTree, any of its methods at any time.  arg is
\* the argument list of an insert, the argument of a delete or search.

\* The call of the usage example of the README, made on a new tree.
ReadmeArgs == <<5, 3, 7>>

BstInsert(args) ==
  LET t == bstInsertCall(heap, size, root, args)
  IN  /\ size < MaxBstSize
      /\ heap' = t.heap
      /\ root' = t.root
      /\ size' = t.size
      /\ op' = "insert"
      /\ arg' = args
      /\ ret' = <<>>
      /\ pre' = Entered

BstInsertReadme ==
  /\ op = "new"
  /\ BstInsert(ReadmeArgs)

BstDelete(data) ==
  LET t == bstDelete(heap, size, root, data)
  IN  /\ heap' = t.heap
      /\ root' = t.root
      /\ size' = t.size
      /\ op' = "delete"
      /\ arg' = data
      /\ ret' = <<t.ret>>
      /\ pre' = Entered

BstSearch(data) == Query("search", data, bstSearch(heap, root, data))

\* clear(): the root is dropped and the counter is reset; the nodes are no
\* longer reachable and leave the heap.
BstClear ==
  /\ heap' = EmptyHeap
  /\ root' = NULL
  /\ size' = 0
  /\ op' = "clear"
  /\ arg' = NULL
  /\ ret' = <<>>
  /\ pre' = Entered

BstFindMin == Query("findMin", NULL, bstFindMin(heap, root))

BstFindMax == Query("findMax", NULL, bstFindMax(heap, root))

BstInorderTraversal ==
  Query("inorderTraversal", NULL, bstInorderTraversal(heap, root))

NextBst ==
  \/ \E data \in BstKeys : BstInsert(<<data>>) /\ UNCHANGED <<other, permA, permB, done>>
  \/ BstInsertReadme /\ UNCHANGED <<other, permA, permB, done>>
  \/ \E data \in BstKeys : BstDelete(data) /\ UNCHANGED <<other, permA, permB, done>>
  \/ BstClear /\ UNCHANGED <<other, permA, permB, done>>
  \/ \E data \in BstKeys : BstSearch(data) /\ UNCHANGED <<other, permA, permB, done>>
  \/ BstFindMin /\ UNCHANGED <<other, permA, permB, done>>
  \/ BstFindMax /\ UNCHANGED <<other, permA, permB, done>>
  \/ BstInorderTraversal /\ UNCHANGED <<other, permA, permB, done>>

SpecBst == Init /\ [][NextBst]_vars

----------------------------------------------------------------------------
\* The validators on arbitrary trees.  Init draws any binary tree of up to
\* MaxCorruptNodes nodes with any key of CorruptKeys and any cached height of
\* CorruptHeights at each node, ordered and balanced or not; the two
\* validators are then applied to it.

CorruptKeys == 1..MaxCorruptKey

CorruptHeights == {0, 1, 2}

\* The shapes of the binary trees whose nodes are the ids of s, in in-order.
RECURSIVE ShapesOver(_)
ShapesOver(s) ==
  IF s = <<>>
  THEN {[h |-> EmptyHeap, n |-> NULL]}
  ELSE UNION {
         {[h |-> (s[i] :> [left |-> L.n, right |-> R.n]) @@ L.h @@ R.h,
           n |-> s[i]] :
            L \in ShapesOver(SubSeq(s, 1, i - 1)),
            R \in ShapesOver(SubSeq(s, i + 1, Len(s)))} :
         i \in 1..Len(s)}

InitCorrupt ==
  /\ \E n \in 0..MaxCorruptNodes :
       \E t \in ShapesOver(Iota(n)) :
         \E data \in [1..n -> CorruptKeys], hts \in [1..n -> CorruptHeights] :
           /\ heap = [i \in 1..n |->
                        [data |-> data[i], left |-> t.h[i].left,
                         right |-> t.h[i].right, height |-> hts[i]]]
           /\ root = t.n
           /\ size = n
           /\ pre = [heap |-> heap, root |-> t.n, size |-> n]
  /\ op = "new"
  /\ arg = NULL
  /\ ret = <<>>
  /\ other = NewTree
  /\ permA = <<>>
  /\ permB = <<>>
  /\ done = 0

NextCorrupt ==
  \/ IsValidBST /\ UNCHANGED <<other, permA, permB, done>>
  \/ IsValidAVL /\ UNCHANGED <<other, permA, permB, done>>

SpecCorrupt == InitCorrupt /\ [][NextCorrupt]_vars

----------------------------------------------------------------------------
\* insertNode and deleteNode once more, with a record of what they do in the
\* order they do it: an entry when balance is called on a node and an entry
\* when a call returns, with the node returned and whether it comes from
\* balance; each entry keeps the heap as it is at that moment.  They return
\* [h, sz, n, log].

\* The subtree at n is a valid AVL subtree and every cached height in it is
\* the true height.
SubtreeOk(h, n) ==
  /\ validateAVL(h, n)
  /\ \A m \in Reach(h, n) : h[m].height = TrueHeight(h, m)

BalanceCalled(h, node) ==
  [kind |-> "balance", node |-> node, balanced |-> TRUE, h |-> h]

Returned(h, n, balanced) ==
  [kind |-> "return", node |-> n, balanced |-> balanced, h |-> h]


\* Faulty variant of RotationAt: the rotation of the other side is picked.
RotationAt_wrongSide(h, node) ==
  LET h1 == updateHeight(h, node)
      balanceFactor == getBalanceFactor(h1, node)
  IN  IF balanceFactor > 1
      THEN IF getBalanceFactor(h1, h1[node].left) < 0
           THEN "rotateRightLeft"
           ELSE "rotateLeft"
      ELSE IF balanceFactor < -1
      THEN IF getBalanceFactor(h1, h1[node].right) > 0
           THEN "rotateLeftRight"
           ELSE "rotateRight"
      ELSE "none"

\* The rotation balance(node) calls on the heap h, "none" when it returns the
\* node as it is.
RotationAt(h, node) ==
  LET h1 == updateHeight(h, node)
      balanceFactor == getBalanceFactor(h1, node)
  IN  IF balanceFactor > 1
      THEN IF getBalanceFactor(h1, h1[node].left) < 0
           THEN "rotateLeftRight"
           ELSE "rotateRight"
      ELSE IF balanceFactor < -1
      THEN IF getBalanceFactor(h1, h1[node].right) > 0
           THEN "rotateRightLeft"
           ELSE "rotateLeft"
      ELSE "none"

\* What balance(node) returns when it calls the rotation named rot.
Rotated(h, node, rot) ==
  LET h1 == updateHeight(h, node)
  IN  CASE rot = "rotateRight"     -> rotateRight(h1, node)
        [] rot = "rotateLeft"      -> rotateLeft(h1, node)
        [] rot = "rotateLeftRight" -> rotateLeftRight(h1, node)
        [] rot = "rotateRightLeft" -> rotateRightLeft(h1, node)
        [] OTHER                   -> [h |-> h1, n |-> node]

\* The heap between the two rotations of a double rotation at node: the
\* inner rotation is done and its result is linked under node.
BetweenRotations(h, node, rot) ==
  LET h1 == updateHeight(h, node)
  IN  IF rot = "rotateLeftRight"
      THEN LET r == rotateLeft(h1, h1[node].left)
           IN  [r.h EXCEPT ![node].left = r.n]
      ELSE LET r == rotateRight(h1, h1[node].right)
           IN  [r.h EXCEPT ![node].right = r.n]

RECURSIVE insertNodeLogged(_, _, _, _, _)
insertNodeLogged(h, sz, node, data, log) ==
  IF node = NULL
  THEN LET id == NewId(h)
           h1 == h @@ (id :> AvlNode(data))
       IN  [h |-> h1, sz |-> sz, n |-> id, log |-> Append(log, Returned(h1, id, FALSE))]
  ELSE LET comparison == compare(data, h[node].data)
       IN  IF comparison < 0
           THEN LET r  == insertNodeLogged(h, sz, h[node].left, data, log)
                    h1 == [r.h EXCEPT ![node].left = r.n]
                    b  == balance(h1, node)
                IN  [h |-> b.h, sz |-> r.sz, n |-> b.n,
                     log |-> r.log \o <<BalanceCalled(h1, node), Returned(b.h, b.n, TRUE)>>]
           ELSE IF comparison > 0
           THEN LET r  == insertNodeLogged(h, sz, h[node].right, data, log)
                    h1 == [r.h EXCEPT ![node].right = r.n]
                    b  == balance(h1, node)
                IN  [h |-> b.h, sz |-> r.sz, n |-> b.n,
                     log |-> r.log \o <<BalanceCalled(h1, node), Returned(b.h, b.n, TRUE)>>]
           ELSE [h |-> h, sz |-> sz - 1, n |-> node,
                 log |-> Append(log, Returned(h, node, FALSE))]

RECURSIVE deleteNodeLogged(_, _, _, _, _)

\* Faulty variant of deleteNodeLogged: balance is called only at the node
\* where the key was found; the nodes above it are returned as they are.
deleteNodeLogged_foundOnly(h, sz, node, data, log) ==
  IF node = NULL
  THEN [h |-> h, sz |-> sz, n |-> NULL, log |-> Append(log, Returned(h, NULL, FALSE))]
  ELSE LET comparison == compare(data, h[node].data)
       IN  IF comparison < 0
           THEN LET r  == deleteNodeLogged(h, sz, h[node].left, data, log)
                    h1 == [r.h EXCEPT ![node].left = r.n]
                IN  [h |-> h1, sz |-> r.sz, n |-> node,
                     log |-> Append(r.log, Returned(h1, node, FALSE))]
           ELSE IF comparison > 0
           THEN LET r  == deleteNodeLogged(h, sz, h[node].right, data, log)
                    h1 == [r.h EXCEPT ![node].right = r.n]
                IN  [h |-> h1, sz |-> r.sz, n |-> node,
                     log |-> Append(r.log, Returned(h1, node, FALSE))]
           ELSE IF h[node].left = NULL /\ h[node].right = NULL
           THEN LET h1 == Dropped(h, node)
                IN  [h |-> h1, sz |-> sz - 1, n |-> NULL,
                     log |-> Append(log, Returned(h1, NULL, FALSE))]
           ELSE IF h[node].left = NULL
           THEN LET h1 == Dropped(h, node)
                IN  [h |-> h1, sz |-> sz - 1, n |-> h[node].right,
                     log |-> Append(log, Returned(h1, h[node].right, FALSE))]
           ELSE IF h[node].right = NULL
           THEN LET h1 == Dropped(h, node)
                IN  [h |-> h1, sz |-> sz - 1, n |-> h[node].left,
                     log |-> Append(log, Returned(h1, h[node].left, FALSE))]
           ELSE LET successor == findMinNode(h, h[node].right)
                    h1 == [h EXCEPT ![node].data = h[successor].data]
                    r  == deleteNodeLogged(h1, sz - 1, h1[node].right,
                                           h1[successor].data, log)
                    h2 == [r.h EXCEPT ![node].right = r.n]
                    b  == balance(h2, node)
                IN  [h |-> b.h, sz |-> r.sz + 1, n |-> b.n,
                     log |-> r.log \o <<BalanceCalled(h2, node), Returned(b.h, b.n, TRUE)>>]

deleteNodeLogged(h, sz, node, data, log) ==
  IF node = NULL
  THEN [h |-> h, sz |-> sz, n |-> NULL, log |-> Append(log, Returned(h, NULL, FALSE))]
  ELSE LET comparison == compare(data, h[node].data)
       IN  IF comparison < 0
           THEN LET r  == deleteNodeLogged(h, sz, h[node].left, data, log)
                    h1 == [r.h EXCEPT ![node].left = r.n]
                    b  == balance(h1, node)
                IN  [h |-> b.h, sz |-> r.sz, n |-> b.n,
                     log |-> r.log \o <<BalanceCalled(h1, node), Returned(b.h, b.n, TRUE)>>]
           ELSE IF comparison > 0
           THEN LET r  == deleteNodeLogged(h, sz, h[node].right, data, log)
                    h1 == [r.h EXCEPT ![node].right = r.n]
                    b  == balance(h1, node)
                IN  [h |-> b.h, sz |-> r.sz, n |-> b.n,
                     log |-> r.log \o <<BalanceCalled(h1, node), Returned(b.h, b.n, TRUE)>>]
           ELSE IF h[node].left = NULL /\ h[node].right = NULL
           THEN LET h1 == Dropped(h, node)
                IN  [h |-> h1, sz |-> sz - 1, n |-> NULL,
                     log |-> Append(log, Returned(h1, NULL, FALSE))]
           ELSE IF h[node].left = NULL
           THEN LET h1 == Dropped(h, node)
                IN  [h |-> h1, sz |-> sz - 1, n |-> h[node].right,
                     log |-> Append(log, Returned(h1, h[node].right, FALSE))]
           ELSE IF h[node].right = NULL
           THEN LET h1 == Dropped(h, node)
                IN  [h |-> h1, sz |-> sz - 1, n |-> h[node].left,
                     log |-> Append(log, Returned(h1, h[node].left, FALSE))]
           ELSE LET successor == findMinNode(h, h[node].right)
                    h1 == [h EXCEPT ![node].data = h[successor].data]
                    r  == deleteNodeLogged(h1, sz - 1, h1[node].right,
                                           h1[successor].data, log)
                    h2 == [r.h EXCEPT ![node].right = r.n]
                    b  == balance(h2, node)
                IN  [h |-> b.h, sz |-> r.sz + 1, n |-> b.n,
                     log |-> r.log \o <<BalanceCalled(h2, node), Returned(b.h, b.n, TRUE)>>]

----------------------------------------------------------------------------
\* C1: after every insert and delete, whatever the interleaving, the cached
\* heights of the two children of every node differ by at most 1 (an absent
\* child counts -1), and isValidAVL() returns true.
C1_AvlProperty ==
  /\ \A n \in Reach(heap, root) : getBalanceFactor(heap, n) \in {-1, 0, 1}
  /\ isValidAVL(heap, root)

\* A delete that took a node out and left another node at the root while the
\* old root stayed in the tree: the root was rotated on the way back.
C1_Witness ==
  /\ op = "delete"
  /\ ret = <<TRUE>>
  /\ root # pre.root
  /\ pre.root \in Reach(heap, root)

\* C2: after every insert and delete every key of a node's left subtree is
\* less than the node's key and every key of its right subtree is greater;
\* isValidBST() is true and inorderTraversal() is strictly ascending.
C2_BstProperty ==
  /\ \A n \in Reach(heap, root) :
       /\ \A k \in KeysUnder(heap, heap[n].left) : k < heap[n].data
       /\ \A k \in KeysUnder(heap, heap[n].right) : k > heap[n].data
  /\ isValidBST(heap, root)
  /\ StrictlyAscending(inorderTraversal(heap, root))

\* A delete of a key held by a node with two children whose right subtree
\* has more than one node: the successor is not the right child itself.
C2_Witness ==
  /\ op = "delete"
  /\ Holder # NULL
  /\ ChildrenOfHolder = 2
  /\ Cardinality(Reach(pre.heap, pre.heap[Holder].right)) >= 2
  /\ size = 3

\* C3: after every insert and delete the cached height of every node of the
\* tree is 1 + the larger of its children's cached heights, and is the
\* node's true height.
C3_HeightCache ==
  \A n \in Reach(heap, root) :
    /\ heap[n].height =
         1 + Max(getHeight(heap, heap[n].left), getHeight(heap, heap[n].right))
    /\ heap[n].height = TrueHeight(heap, n)

\* An insert after which a node that was in the tree has a smaller height
\* than before: a rotation moved it down.
C3_Witness ==
  /\ op = "insert"
  /\ \E n \in DOMAIN heap \cap DOMAIN pre.heap : heap[n].height < pre.heap[n].height

\* C4: the tree stands for a set of keys: a new tree for the empty set,
\* insert(k) adds k, delete(k) removes k, search(k) tells whether k is in
\* the set, and inorderTraversal() lists the set in ascending order.
C4_RefinesSet ==
  /\ (op = "new" => AbsSet(Now) = {})
  /\ (op = "insert" => AbsSet(Now) = AbsSet(pre) \cup {arg})
  /\ (op = "delete" => AbsSet(Now) = AbsSet(pre) \ {arg})
  /\ (op = "search" => ret = <<arg \in AbsSet(pre)>>)
  /\ \A k \in Keys : search(heap, root, k) <=> k \in AbsSet(Now)
  /\ inorderTraversal(heap, root) = SortedSeq(AbsSet(Now))

\* A search that found a key below the root of a tree out of which a key
\* had been deleted.
C4_Witness ==
  /\ op = "search"
  /\ ret = <<TRUE>>
  /\ arg # heap[root].data
  /\ size = 3
  /\ Cardinality(DOMAIN heap) = 3
  /\ 4 \in DOMAIN heap

\* C5: the count goes up by one on an insert of a key not stored, down by
\* one on a delete of a stored key, stays on a duplicate insert and on a
\* delete of a key not stored; it is the number of nodes of the tree.
C5_CountExact ==
  /\ (op = "insert" /\ arg \notin AbsSet(pre) => size = pre.size + 1)
  /\ (op = "insert" /\ arg \in AbsSet(pre) => size = pre.size)
  /\ (op = "delete" /\ arg \in AbsSet(pre) => size = pre.size - 1)
  /\ (op = "delete" /\ arg \notin AbsSet(pre) => size = pre.size)
  /\ count(size) = Len(inorderTraversal(heap, root))
  /\ count(size) = Cardinality(Reach(heap, root))

\* A delete of a key held by a node with two children.
C5_Witness ==
  /\ op = "delete"
  /\ Holder # NULL
  /\ ChildrenOfHolder = 2
  /\ size = pre.size - 1

\* C6: insert(k) of a stored key changes nothing: every node keeps its key,
\* children and cached height, the root, the count and the in-order
\* sequence are as before.
C6_DuplicateInsertNoOp ==
  op = "insert" /\ arg \in AbsSet(pre) =>
    /\ heap = pre.heap
    /\ root = pre.root
    /\ size = pre.size
    /\ inorderTraversal(heap, root) = inorderTraversal(pre.heap, pre.root)

\* A duplicate insert of a key held by a leaf two levels below the root.
C6_Witness ==
  /\ op = "insert"
  /\ Holder # NULL
  /\ ChildrenOfHolder = 0
  /\ \E p \in Reach(pre.heap, pre.root) \ {pre.root} :
       Holder \in {pre.heap[p].left, pre.heap[p].right}

\* C7: delete(k) returns true exactly when k was stored, and the count goes
\* down by exactly one exactly when it returns true.
C7_DeleteResult ==
  op = "delete" =>
    /\ ret = <<arg \in AbsSet(pre)>>
    /\ (size = pre.size - 1) <=> (ret = <<TRUE>>)
    /\ (ret = <<FALSE>> => size = pre.size)

\* A delete of a key held by a node with exactly one child.
C7_Witness ==
  /\ op = "delete"
  /\ ret = <<TRUE>>
  /\ Holder # NULL
  /\ ChildrenOfHolder = 1

\* C8: delete(k) of a key not stored returns false and changes nothing:
\* heap, root and count are as before.
C8_DeleteAbsentNoOp ==
  op = "delete" /\ arg \notin AbsSet(pre) =>
    /\ ret = <<FALSE>>
    /\ heap = pre.heap
    /\ root = pre.root
    /\ size = pre.size
    /\ inorderTraversal(heap, root) = inorderTraversal(pre.heap, pre.root)

\* A delete of a key not stored whose descent passes a node whose children
\* differ in height.
C8_Witness ==
  /\ op = "delete"
  /\ ret = <<FALSE>>
  /\ pre.size >= 2
  /\ getBalanceFactor(pre.heap, pre.root) # 0
  /\ arg < pre.heap[pre.root].data
  /\ pre.heap[pre.root].left # NULL

\* C9 (SpecPerm): after n inserts of distinct keys into a new tree, in any
\* order, height() <= 1.44 * log2(n + 2) - 1, a tree of height h holds at
\* least the fewest nodes an AVL tree of height h can have, and for n >= 3
\* the height is not n - 1.
C9_HeightBound ==
  /\ size = done
  /\ WithinLogBound(height(heap, root), size)
  /\ size >= MinAvlNodes(height(heap, root))
  /\ (size >= 3 => height(heap, root) # size - 1)

\* 1, 2, 3 and 4 inserted in ascending order.
C9_Witness ==
  /\ permA = <<1, 2, 3, 4>>
  /\ done = 4
  /\ height(heap, root) = 2

\* C10 (SpecPerm): the same distinct keys inserted into two new trees in
\* two orders give the same inorderTraversal() and the same count().
C10_OrderIndependent ==
  done = Len(permA) =>
    /\ inorderTraversal(heap, root) = inorderTraversal(other.heap, other.root)
    /\ count(size) = count(other.size)

\* Two orders of four keys that end in trees of different shape.
C10_Witness ==
  /\ done = Len(permA)
  /\ done = 4
  /\ permA # permB
  /\ heap[root].data # other.heap[other.root].data

\* C11: after insert of 5, 3, 7, 1, 9, 4, 6, 8 in this order into a new
\* tree, inorderTraversal() is [1, 3, 4, 5, 6, 7, 8, 9], height() is 3,
\* findMin() is 1, findMax() is 9, search(6) is true, search(2) is false
\* and lowestCommonAncestor(1, 4) is 3; a call made then returns just that.
C11_ScenarioEight ==
  (permA = <<5, 3, 7, 1, 9, 4, 6, 8>> /\ done = 8) =>
    /\ inorderTraversal(heap, root) = <<1, 3, 4, 5, 6, 7, 8, 9>>
    /\ height(heap, root) = 3
    /\ findMin(heap, root) = 1
    /\ findMax(heap, root) = 9
    /\ search(heap, root, 6) = TRUE
    /\ search(heap, root, 2) = FALSE
    /\ lowestCommonAncestor(heap, root, 1, 4) = 3
    /\ (op = "inorderTraversal" => ret = << <<1, 3, 4, 5, 6, 7, 8, 9>> >>)
    /\ (op = "height" => ret = <<3>>)
    /\ (op = "findMin" => ret = <<1>>)
    /\ (op = "findMax" => ret = <<9>>)
    /\ (op = "search" /\ arg = 6 => ret = <<TRUE>>)
    /\ (op = "search" /\ arg = 2 => ret = <<FALSE>>)
    /\ (op = "lowestCommonAncestor" /\ arg = <<1, 4>> => ret = <<3>>)

\* The call lowestCommonAncestor(1, 4) on the tree of the eight keys.
C11_Witness ==
  /\ permA = <<5, 3, 7, 1, 9, 4, 6, 8>>
  /\ done = 8
  /\ size = 8
  /\ op = "lowestCommonAncestor"
  /\ arg = <<1, 4>>
  /\ ret = <<3>>

\* C12: after insert of 1, 2, 3, 4, 5 in this order into a new tree
\* height() is 2 and not 4; a delete(3) that follows returns true, and then
\* inorderTraversal() is [1, 2, 4, 5] and isValidAVL() is true.
C12_ScenarioFive ==
  permA = <<1, 2, 3, 4, 5>> =>
    /\ (done = 5 =>
          /\ height(heap, root) = 2
          /\ (op = "height" => ret = <<2>>))
    /\ (done = 6 /\ op = "delete" /\ arg = 3 =>
          /\ ret = <<TRUE>>
          /\ inorderTraversal(heap, root) = <<1, 2, 4, 5>>
          /\ isValidAVL(heap, root))
    /\ (done = 6 /\ 3 \notin AbsSet(Now) =>
          /\ (op = "inorderTraversal" => ret = << <<1, 2, 4, 5>> >>)
          /\ (op = "isValidAVL" => ret = <<TRUE>>))

\* delete(3) on the tree of the five keys, which had height 2.
C12_Witness ==
  /\ permA = <<1, 2, 3, 4, 5>>
  /\ done = 6
  /\ op = "delete"
  /\ arg = 3
  /\ ret = <<TRUE>>
  /\ pre.size = 5
  /\ pre.heap[pre.root].height = 2
  /\ size = 4

\* C13: in every reachable state findMin() returns the smallest stored key
\* and findMax() the largest, the first and the last element of
\* inorderTraversal(); on an empty tree both return null.
C13_MinMax ==
  LET s == inorderTraversal(heap, root)
  IN  IF root = NULL
      THEN findMin(heap, root) = NULL /\ findMax(heap, root) = NULL
      ELSE /\ findMin(heap, root) = s[1]
           /\ findMax(heap, root) = s[Len(s)]
           /\ findMin(heap, root) \in AbsSet(Now)
           /\ findMax(heap, root) \in AbsSet(Now)
           /\ \A k \in AbsSet(Now) :
                findMin(heap, root) <= k /\ k <= findMax(heap, root)

\* The largest key of a tree of three or more keys was deleted: findMax()
\* now returns a smaller key, which is not the root's and not findMin().
C13_Witness ==
  /\ op = "delete"
  /\ ret = <<TRUE>>
  /\ pre.size >= 3
  /\ arg = findMax(pre.heap, pre.root)
  /\ findMax(heap, root) < arg
  /\ findMax(heap, root) # heap[root].data
  /\ findMin(heap, root) # heap[root].data

\* C14: kthSmallest(k) returns the k-th element (counted from 1) of
\* inorderTraversal() when 1 <= k <= count(), and null when k <= 0 or
\* k > count(), the empty tree included.
C14_KthSmallest ==
  \A k \in (-1)..(MaxKey + 2) :
    kthSmallest(heap, root, size, k) =
      IF 1 <= k /\ k <= count(size)
      THEN inorderTraversal(heap, root)[k]
      ELSE NULL

\* A tree of four keys of height 2: rank 4 is the last key, rank 3 is found
\* in a right subtree, rank 5 is out of range.
C14_Witness ==
  /\ size = 4
  /\ height(heap, root) = 2
  /\ kthSmallest(heap, root, size, 4) = findMax(heap, root)
  /\ kthSmallest(heap, root, size, 3) \in KeysUnder(heap, heap[root].right)
  /\ kthSmallest(heap, root, size, 5) = NULL
  /\ kthSmallest(heap, root, size, 0) = NULL

\* The nodes of the tree whose subtree holds both a and b.
CommonAncestors(a, b) ==
  {n \in Reach(heap, root) : {a, b} \subseteq KeysUnder(heap, n)}

\* The deepest of them: the one that lies in the subtree of all the others.
DeepestCommon(a, b) ==
  LET C == CommonAncestors(a, b)
  IN  CHOOSE n \in C : \A m \in C : n \in Reach(heap, m)

\* The nodes that have node n properly below them.
ProperAncestors(n) == {m \in Reach(heap, root) : m # n /\ n \in Reach(heap, m)}

SameSide(a, b, n) ==
  \/ a < heap[n].data /\ b < heap[n].data
  \/ a > heap[n].data /\ b > heap[n].data

\* C15: for stored keys a and b, lowestCommonAncestor(a, b) is the key of
\* the deepest node whose subtree holds both: a or b itself when one is
\* above the other, a when a = b; it is the first node on the way down from
\* the root at which a and b are not both strictly on the same side.
C15_LowestCommonAncestor ==
  \A a, b \in AbsSet(Now) :
    LET n   == findLCA(heap, root, a, b)
        lca == lowestCommonAncestor(heap, root, a, b)
    IN  /\ n # NULL
        /\ n = DeepestCommon(a, b)
        /\ lca = heap[n].data
        /\ (a = b => lca = a)
        /\ (\E m \in Reach(heap, root) :
              heap[m].data = a /\ b \in KeysUnder(heap, m))
             => lca = a
        /\ ~SameSide(a, b, n)
        /\ \A m \in ProperAncestors(n) : SameSide(a, b, m)

\* A tree of height 2 in which one pair of keys meets at the root, which is
\* neither of them, and another pair below the root, at one of the two.
C15_Witness ==
  /\ height(heap, root) = 2
  /\ \E a, b \in AbsSet(Now) :
       /\ a # b
       /\ lowestCommonAncestor(heap, root, a, b) \notin {a, b}
  /\ \E a, b \in AbsSet(Now) :
       /\ a # b
       /\ lowestCommonAncestor(heap, root, a, b) = a
       /\ a # heap[root].data

\* C16: height() is -1 on an empty tree and the true height of the tree
\* otherwise, in every state that inserts, deletes and clear lead to.
C16_Height ==
  /\ height(heap, root) = TrueHeight(heap, root)
  /\ (root = NULL <=> height(heap, root) = -1)
  /\ (size = 1 => height(heap, root) = 0)

\* A delete after which height() is lower than before, and not -1.
C16_Witness ==
  /\ op = "delete"
  /\ height(pre.heap, pre.root) = 2
  /\ height(heap, root) = 1
  /\ TrueHeight(heap, root) = 1

\* C17: a step made by a query (search, findMin, findMax, kthSmallest,
\* lowestCommonAncestor, the four traversals, height, count, isEmpty,
\* isValidBST, isValidAVL, getBalanceFactors) leaves the root, every node's
\* key, children and cached height, and the count as they were; a step that
\* changes any of them is made by insert, delete or clear.
C17_QueriesChangeNothing ==
  [][/\ (op' \in QueryOps => heap' = heap /\ root' = root /\ size' = size)
     /\ (<<heap, root, size>>' # <<heap, root, size>> => op' \in MutatorOps)]_vars

\* A level-order traversal of a tree of three keys has returned the three
\* keys, the root's first, and the tree is the one the call found.
C17_Witness ==
  /\ op = "levelOrderTraversal"
  /\ size = 3
  /\ Len(ret[1]) = 3
  /\ ret[1][1] = heap[root].data
  /\ Now = pre

\* C18: clear() leaves a tree that cannot be told from a new one: isEmpty()
\* is true, count() is 0, height() is -1, every traversal is empty, search
\* is false for every key, the fields are those of a new tree; the tree
\* invariants hold in every state, those after a clear included.
C18_ClearIsNew ==
  /\ op = "clear" =>
       /\ Now = NewTree
       /\ isEmpty(root) = TRUE
       /\ count(size) = 0
       /\ height(heap, root) = -1
       /\ inorderTraversal(heap, root) = <<>>
       /\ preorderTraversal(heap, root) = <<>>
       /\ postorderTraversal(heap, root) = <<>>
       /\ levelOrderTraversal(heap, root) = <<>>
       /\ getBalanceFactors(heap, root) = <<>>
       /\ findMin(heap, root) = NULL
       /\ findMax(heap, root) = NULL
       /\ \A k \in Keys : search(heap, root, k) = FALSE
       /\ \A k \in Keys : kthSmallest(heap, root, size, k) = NULL
       /\ \A k \in Keys : insert(heap, size, root, k) = insert(EmptyHeap, 0, NULL, k)
  /\ isValidBST(heap, root)
  /\ isValidAVL(heap, root)
  /\ count(size) = Cardinality(Reach(heap, root))
  /\ (isEmpty(root) <=> count(size) = 0)

\* clear() on a tree of four keys and height 2.
C18_Witness ==
  /\ op = "clear"
  /\ pre.size = 4
  /\ height(pre.heap, pre.root) = 2
  /\ root = NULL

\* The number of child fields of the nodes N that point to node n.
ParentLinks(h, N, n) ==
  Cardinality({m \in N : h[m].left = n}) + Cardinality({m \in N : h[m].right = n})

\* The structure under r is a tree: no node lies in one of its own
\* subtrees, r is the child of no node, every other node of exactly one.
StrictTree(h, r) ==
  LET N == Reach(h, r)
  IN  \A n \in N :
        /\ n \notin Reach(h, h[n].left) \cup Reach(h, h[n].right)
        /\ ParentLinks(h, N, n) = IF n = r THEN 0 ELSE 1

\* C19: what is reachable from the root is always a tree in the strict
\* sense, without cycles and with every node the child of at most one node,
\* after every insert and delete; a rotation at a node of such a tree
\* returns a subtree that is a tree of the same nodes.
C19_StrictTree ==
  /\ StrictTree(heap, root)
  /\ \A y \in Reach(heap, root) :
       heap[y].left # NULL =>
         LET r == rotateRight(heap, y)
         IN  StrictTree(r.h, r.n) /\ Reach(r.h, r.n) = Reach(heap, y)
  /\ \A x \in Reach(heap, root) :
       heap[x].right # NULL =>
         LET r == rotateLeft(heap, x)
         IN  StrictTree(r.h, r.n) /\ Reach(r.h, r.n) = Reach(heap, x)

\* An insert that made the new node the root by a double rotation: the two
\* nodes the tree had are now its children.
C19_Witness ==
  /\ op = "insert"
  /\ pre.size = 2
  /\ size = 3
  /\ root \notin DOMAIN pre.heap
  /\ {heap[root].left, heap[root].right} = DOMAIN pre.heap

\* C20: every public method ends on every reachable tree: the descents of
\* insert, search, delete and lowestCommonAncestor visit at most height + 1
\* nodes before they reach an absent child or their target, the loops of
\* findMinNode and findMaxNode make at most height iterations, the
\* recursions of the traversals and validators and the queue loop of
\* levelOrderTraversal visit count() nodes and stop, and the recursion of
\* kthSmallest makes at most count() calls on nodes and returns what
\* kthSmallest returns.
C20_Terminates ==
  LET ht == height(heap, root)
      d  == count(size)
  IN  /\ \A k \in Keys :
           /\ descentEnds(heap, root, k, ht + 1)
           /\ deleteNodeEnds(heap, root, k, ht + 1)
      /\ \A a, b \in Keys : findLCAEnds(heap, root, a, b, ht + 1)
      /\ root # NULL =>
           /\ findMinNodeEnds(heap, root, ht)
           /\ findMaxNodeEnds(heap, root, ht)
           /\ levelOrderLoopEnds(heap, <<root>>, d)
      /\ root = NULL => levelOrderLoopEnds(heap, <<>>, 0)
      /\ walkBudgetLeft(heap, root, d) = 0
      /\ validateBSTBudget(heap, root, NULL, NULL, d) = [ok |-> TRUE, fuel |-> 0]
      /\ validateAVLBudget(heap, root, d) = [ok |-> TRUE, fuel |-> 0]
      /\ \A k \in 1..d :
           /\ kthSmallestHelperBudget(heap, root, k,
                                      [count |-> 0, value |-> NULL], d).fuel >= 0
           /\ kthSmallestHelperBudget(heap, root, k,
                                      [count |-> 0, value |-> NULL], d).result.value
                = kthSmallest(heap, root, size, k)

\* A tree of four keys of height 2 on which the search for some key visits
\* three nodes and not fewer, the walk visits four nodes and not fewer, and
\* kthSmallest stops for some k before it has visited every node.
C20_Witness ==
  /\ size = 4
  /\ \E k \in 1..4 :
       kthSmallestHelperBudget(heap, root, k, [count |-> 0, value |-> NULL], 4).fuel = 1
  /\ \E k \in Keys : descentEnds(heap, root, k, 3) /\ ~descentEnds(heap, root, k, 2)
  /\ walkBudgetLeft(heap, root, 4) = 0
  /\ walkBudgetLeft(heap, root, 3) = -1
  /\ levelOrderLoopEnds(heap, <<root>>, 4)
  /\ ~levelOrderLoopEnds(heap, <<root>>, 3)

\* The elements of sequence s.
Range(s) == {s[i] : i \in 1..Len(s)}

\* s lists every key of K once and nothing else.
ListsOnce(s, K) == Len(s) = Cardinality(K) /\ Range(s) = K

\* The number of nodes above the node that holds key k.
DepthOfKey(k) ==
  LET n == CHOOSE m \in Reach(heap, root) : heap[m].data = k
  IN  Cardinality(ProperAncestors(n))

\* C21: in every state preorderTraversal(), postorderTraversal() and
\* levelOrderTraversal() each list every stored key once, as
\* inorderTraversal() does, and have length count(); preorder and level
\* order begin with the root's key, postorder ends with it, and level order
\* lists the keys by depth, never a deeper key before a shallower one.
C21_Traversals ==
  LET ino   == inorderTraversal(heap, root)
      pre_  == preorderTraversal(heap, root)
      post  == postorderTraversal(heap, root)
      level == levelOrderTraversal(heap, root)
  IN  /\ ListsOnce(ino, AbsSet(Now))
      /\ ListsOnce(pre_, Range(ino))
      /\ ListsOnce(post, Range(ino))
      /\ ListsOnce(level, Range(ino))
      /\ Len(pre_) = count(size)
      /\ Len(post) = count(size)
      /\ Len(level) = count(size)
      /\ root # NULL =>
           /\ pre_[1] = heap[root].data
           /\ level[1] = heap[root].data
           /\ post[Len(post)] = heap[root].data
      /\ \A i, j \in 1..Len(level) :
           i < j => DepthOfKey(level[i]) <= DepthOfKey(level[j])

\* A tree of height 3 left by an insert into a tree of height 2: the four
\* traversals are four different sequences, and the last key of the level
\* order lies three below the root.
C21_Witness ==
  /\ op = "insert"
  /\ height(pre.heap, pre.root) = 2
  /\ height(heap, root) = 3
  /\ Cardinality({inorderTraversal(heap, root), preorderTraversal(heap, root),
                  postorderTraversal(heap, root), levelOrderTraversal(heap, root)}) = 4
  /\ DepthOfKey(levelOrderTraversal(heap, root)[size]) = 3

\* C22: BinarySearchTree, after any sequence of inserts and deletes:
\* search(k) is true exactly for the keys inserted and not deleted since;
\* delete(k) returns true for a stored key, after which search(k) is false,
\* and false for a key not stored; inorderTraversal() lists the stored keys
\* in ascending order, findMin() and findMax() return its first and last
\* element.
C22_BstRefinesSet ==
  LET ino == bstInorderTraversal(heap, root)
  IN  /\ (op = "new" => AbsSet(Now) = {})
      /\ (op = "insert" /\ Len(arg) = 1 => AbsSet(Now) = AbsSet(pre) \cup {arg[1]})
      /\ (op = "delete" =>
            /\ AbsSet(Now) = AbsSet(pre) \ {arg}
            /\ ret = <<arg \in AbsSet(pre)>>
            /\ bstSearch(heap, root, arg) = FALSE)
      /\ (op = "search" => ret = <<arg \in AbsSet(pre)>>)
      /\ (op = "clear" => AbsSet(Now) = {})
      /\ \A k \in BstKeys \cup Range(ReadmeArgs) :
           bstSearch(heap, root, k) <=> k \in AbsSet(Now)
      /\ ino = SortedSeq(AbsSet(Now))
      /\ bstFindMin(heap, root) = IF ino = <<>> THEN NULL ELSE ino[1]
      /\ bstFindMax(heap, root) = IF ino = <<>> THEN NULL ELSE ino[Len(ino)]
      /\ (op = "inorderTraversal" => ret = <<ino>>)
      /\ (op = "findMin" => ret = <<bstFindMin(heap, root)>>)
      /\ (op = "findMax" => ret = <<bstFindMax(heap, root)>>)

\* delete(k) returned true for a key held by a node with two children.
C22_Witness ==
  /\ op = "delete"
  /\ ret = <<TRUE>>
  /\ Holder # NULL
  /\ ChildrenOfHolder = 2
  /\ Cardinality(AbsSet(Now)) >= 2

\* C23: the usage example of the README: on a new BinarySearchTree the one
\* call insert(5, 3, 7) is followed by inorderTraversal() = [3, 5, 7].
C23_ReadmeExample ==
  (op = "insert" /\ arg = ReadmeArgs /\ pre = NewTree) =>
    bstInorderTraversal(heap, root) = <<3, 5, 7>>

\* The child references of every node, [node |-> <<left, right>>].
Links(h) == [n \in DOMAIN h |-> <<h[n].left, h[n].right>>]

\* The child references after a right rotation at y, whose left child is x:
\* x above y on its right, x's former right child on y's left.
SingleRight(L, y) ==
  LET x == L[y][1]
  IN  [L EXCEPT ![y] = <<L[x][2], L[y][2]>>, ![x] = <<L[x][1], y>>]

\* The mirror image: a left rotation at x, whose right child is y.
SingleLeft(L, x) ==
  LET y == L[x][2]
  IN  [L EXCEPT ![x] = <<L[x][1], L[y][1]>>, ![y] = <<x, L[y][2]>>]

\* A left rotation at the left child x of y, then a right rotation at y: z,
\* the right child of x, ends up above x and y and hands them its subtrees.
DoubleLeftRight(L, y) ==
  LET x == L[y][1]
      z == L[x][2]
  IN  [L EXCEPT ![z] = <<x, y>>,
                ![x] = <<L[x][1], L[z][1]>>,
                ![y] = <<L[z][2], L[y][2]>>]

\* A right rotation at the right child y of x, then a left rotation at x.
DoubleRightLeft(L, x) ==
  LET y == L[x][2]
      z == L[y][1]
  IN  [L EXCEPT ![z] = <<x, y>>,
                ![x] = <<L[x][1], L[z][1]>>,
                ![y] = <<L[z][2], L[y][2]>>]

\* height(left) - height(right) at node n of the entered tree, by the true
\* heights of the two subtrees.
BfBefore(n) ==
  TrueHeight(pre.heap, pre.heap[n].left) - TrueHeight(pre.heap, pre.heap[n].right)

\* Every node under n has its true height cached.
HeightsCorrect(h, n) == \A m \in Reach(h, n) : h[m].height = TrueHeight(h, m)

\* C24: balance(node) chooses by bf = height(left) - height(right): bf > 1
\* with the left child's bf >= 0, one right rotation at node; bf > 1 with
\* the left child's bf < 0, a left rotation at the left child and then a
\* right rotation at node; bf < -1 with the right child's bf <= 0, one left
\* rotation; bf < -1 with the right child's bf > 0, a right rotation at the
\* right child and then a left rotation at node; bf in {-1, 0, 1}, no
\* change of shape, the node itself is returned with its height refreshed.
C24_BalanceCases ==
  op = "balance" =>
    LET L0 == Links(pre.heap)
        bf == BfBefore(arg)
        l  == pre.heap[arg].left
        r  == pre.heap[arg].right
    IN  /\ (bf > 1 /\ BfBefore(l) >= 0 =>
              Links(heap) = SingleRight(L0, arg) /\ ret = <<l>>)
        /\ (bf > 1 /\ BfBefore(l) < 0 =>
              Links(heap) = DoubleLeftRight(L0, arg) /\ ret = <<pre.heap[l].right>>)
        /\ (bf < -1 /\ BfBefore(r) <= 0 =>
              Links(heap) = SingleLeft(L0, arg) /\ ret = <<r>>)
        /\ (bf < -1 /\ BfBefore(r) > 0 =>
              Links(heap) = DoubleRightLeft(L0, arg) /\ ret = <<pre.heap[r].left>>)
        /\ (bf \in {-1, 0, 1} =>
              /\ ret = <<arg>>
              /\ heap = [pre.heap EXCEPT ![arg].height = TrueHeight(pre.heap, arg)])

\* balance on a node whose right subtree is two higher and leans left, with
\* a cached height that was not the node's height: the right-left case.
C24_Witness ==
  /\ op = "balance"
  /\ BfBefore(arg) = -2
  /\ BfBefore(pre.heap[arg].right) = 1
  /\ pre.heap[arg].height # TrueHeight(pre.heap, arg)
  /\ ret = <<pre.heap[pre.heap[arg].right].left>>
  /\ Cardinality(Reach(heap, ret[1])) >= 6

\* C25: for every node over two valid AVL subtrees with correct cached
\* heights that differ by at most 2, the case of a heavy child with balance
\* factor 0 included, balance(node) returns the root of a subtree at which
\* the AVL property holds, which is a valid AVL tree as a whole and in
\* which every cached height is correct.
C25_BalanceRestoresAvl ==
  op = "balance" =>
    /\ getBalanceFactor(heap, ret[1]) \in {-1, 0, 1}
    /\ \A m \in Reach(heap, ret[1]) :
         TrueHeight(heap, heap[m].left) - TrueHeight(heap, heap[m].right)
           \in {-1, 0, 1}
    /\ HeightsCorrect(heap, ret[1])
    /\ validateAVL(heap, ret[1])
    /\ validateBST(heap, ret[1], NULL, NULL)

\* balance on a node whose left subtree is two higher and has two subtrees
\* of equal height 1: the case only a delete produces.
C25_Witness ==
  /\ op = "balance"
  /\ BfBefore(arg) = 2
  /\ BfBefore(pre.heap[arg].left) = 0
  /\ TrueHeight(pre.heap, pre.heap[arg].left) = 2
  /\ ret = <<pre.heap[arg].left>>
  /\ getBalanceFactor(heap, ret[1]) = -1

\* C26: balance and each of the four rotations change the shape of the
\* subtree only: its nodes, its set of keys and its in-order key sequence
\* are as before, no node appears or disappears, and every node outside the
\* subtree is as it was.
C26_ShapeOnly ==
  op \in PrivateOps =>
    /\ StrictTree(heap, ret[1])
    /\ Reach(heap, ret[1]) = Reach(pre.heap, arg)
    /\ DOMAIN heap = DOMAIN pre.heap
    /\ KeysUnder(heap, ret[1]) = KeysUnder(pre.heap, arg)
    /\ inorderHelper(heap, ret[1], <<>>) = inorderHelper(pre.heap, arg, <<>>)
    /\ \A m \in DOMAIN heap : heap[m].data = pre.heap[m].data
    /\ \A m \in DOMAIN heap \ Reach(pre.heap, arg) : heap[m] = pre.heap[m]
    /\ root = pre.root /\ size = pre.size

\* A right-left double rotation of a subtree of seven nodes or more, whose
\* parent still refers to the node that was handed over.
C26_Witness ==
  /\ op = "rotateRightLeft"
  /\ Cardinality(Reach(heap, ret[1])) >= 7
  /\ heap[root].left = arg
  /\ ret[1] # arg
  /\ heap[ret[1]].left = arg

\* C27: rotateRight(y) with left child x returns x; y is x's right child,
\* x's former right child is y's left child, x's left and y's right subtree
\* stay, no other node changes, and the heights of y and then of x are
\* recomputed, so that both are correct on return; rotateLeft is the mirror
\* image.
C27_Rotation ==
  /\ op = "rotateRight" =>
       LET y == arg
           x == pre.heap[arg].left
       IN  /\ ret = <<x>>
           /\ heap[x].right = y
           /\ heap[y].left = pre.heap[x].right
           /\ heap[x].left = pre.heap[x].left
           /\ heap[y].right = pre.heap[y].right
           /\ \A m \in DOMAIN heap \ {x, y} : heap[m] = pre.heap[m]
           /\ heap[y].height = TrueHeight(heap, y)
           /\ heap[x].height = TrueHeight(heap, x)
           /\ heap[x].height = 1 + Max(getHeight(heap, heap[x].left), heap[y].height)
  /\ op = "rotateLeft" =>
       LET x == arg
           y == pre.heap[arg].right
       IN  /\ ret = <<y>>
           /\ heap[y].left = x
           /\ heap[x].right = pre.heap[y].left
           /\ heap[y].right = pre.heap[y].right
           /\ heap[x].left = pre.heap[x].left
           /\ \A m \in DOMAIN heap \ {x, y} : heap[m] = pre.heap[m]
           /\ heap[x].height = TrueHeight(heap, x)
           /\ heap[y].height = TrueHeight(heap, y)
           /\ heap[y].height = 1 + Max(heap[x].height, getHeight(heap, heap[y].right))

\* rotateLeft(x) where the right child y had a left subtree, which is now
\* x's right subtree, and the height of x went down by two.
C27_Witness ==
  /\ op = "rotateLeft"
  /\ pre.heap[pre.heap[arg].right].left # NULL
  /\ heap[arg].right = pre.heap[pre.heap[arg].right].left
  /\ heap[arg].height = TrueHeight(pre.heap, arg) - 2
  /\ heap[ret[1]].height = heap[arg].height + 1

\* The node with the smallest key in the right subtree of node n of the
\* entered tree.
SuccessorOf(n) ==
  CHOOSE m \in Reach(pre.heap, pre.heap[n].right) :
    \A q \in Reach(pre.heap, pre.heap[n].right) : pre.heap[m].data <= pre.heap[q].data

\* C28: delete(k) where the node that holds k has two children: the node
\* stays in the tree and holds the key of its in-order successor, the
\* leftmost node of its right subtree; the delete of that key from the right
\* subtree finds the successor's node, which is the one node that leaves the
\* tree; the counter, decremented twice and incremented once, ends one
\* below its value before, and delete returns true.
C28_TwoChildrenDelete ==
  (op = "delete" /\ Holder # NULL /\ ChildrenOfHolder = 2) =>
    LET n    == Holder
        succ == SuccessorOf(n)
        h1   == [pre.heap EXCEPT ![n].data = pre.heap[succ].data]
        r    == deleteNode(h1, pre.size - 1, h1[n].right, pre.heap[succ].data)
    IN  /\ succ = findMinNode(pre.heap, pre.heap[n].right)
        /\ pre.heap[succ].left = NULL
        /\ n \in Reach(heap, root)
        /\ heap[n].data = pre.heap[succ].data
        /\ r.sz = pre.size - 2
        /\ DOMAIN r.h = DOMAIN pre.heap \ {succ}
        /\ Reach(heap, root) = Reach(pre.heap, pre.root) \ {succ}
        /\ DOMAIN heap = DOMAIN pre.heap \ {succ}
        /\ \A m \in DOMAIN heap \ {n} : heap[m].data = pre.heap[m].data
        /\ size = pre.size - 1
        /\ ret = <<TRUE>>

\* The key of the root of a tree of height 3 is deleted; its successor is
\* not its right child and has a right child of its own.
C28_Witness ==
  /\ op = "delete"
  /\ Holder # NULL
  /\ Holder = pre.root
  /\ ChildrenOfHolder = 2
  /\ height(pre.heap, pre.root) = 3
  /\ SuccessorOf(Holder) # pre.heap[Holder].right
  /\ pre.heap[SuccessorOf(Holder)].right # NULL
  /\ size = pre.size - 1

----------------------------------------------------------------------------
\* The record of the recursion behind the last insert or delete.
LastLogged ==
  IF op = "insert"
  THEN insertNodeLogged(pre.heap, pre.size, pre.root, arg, <<>>)
  ELSE deleteNodeLogged(pre.heap, pre.size, pre.root, arg, <<>>)

LastPlain ==
  IF op = "insert"
  THEN insertNode(pre.heap, pre.size, pre.root, arg)
  ELSE deleteNode(pre.heap, pre.size, pre.root, arg)

\* The i-th entry of that record says what it should: at a call of balance,
\* that the two subtrees of the node are valid with correct cached heights;
\* at a return, that the subtree returned is.
EntryOk(i) ==
  IF LastLogged.log[i].kind = "balance"
  THEN /\ SubtreeOk(LastLogged.log[i].h,
                    LastLogged.log[i].h[LastLogged.log[i].node].left)
       /\ SubtreeOk(LastLogged.log[i].h,
                    LastLogged.log[i].h[LastLogged.log[i].node].right)
  ELSE SubtreeOk(LastLogged.log[i].h, LastLogged.log[i].node)

\* The nodes a descent by key visits from node downwards, top first: it
\* ends at the node holding the key, or at the last node before NULL.
RECURSIVE SearchPath(_, _, _)
SearchPath(h, node, key) ==
  IF node = NULL THEN <<>>
  ELSE IF key < h[node].data THEN <<node>> \o SearchPath(h, h[node].left, key)
  ELSE IF key > h[node].data THEN <<node>> \o SearchPath(h, h[node].right, key)
  ELSE <<node>>

Reverse(s) == [i \in 1..Len(s) |-> s[Len(s) + 1 - i]]

ButLast(s) == SubSeq(s, 1, Len(s) - 1)

\* The nodes balance was called on, in the order of the calls.
BalancedNodes(log) ==
  LET calls == SelectSeq(log, LAMBDA e : e.kind = "balance")
  IN  [i \in 1..Len(calls) |-> calls[i].node]

\* The nodes of the tree before delete(arg) that lie on the way from the
\* root to the node that leaves the tree, that node left out, top first.
\* With two children at the node holding arg, the way goes on through its
\* right subtree to the in-order successor, which is the node that leaves.
\* With arg absent it is the whole search path.
RemainingPath ==
  LET toHolder == SearchPath(pre.heap, pre.root, arg)
  IN  IF arg \notin AbsSet(pre) THEN toHolder
      ELSE IF ChildrenOfHolder < 2 THEN ButLast(toHolder)
      ELSE toHolder \o ButLast(SearchPath(pre.heap, pre.heap[Holder].right,
                                          pre.heap[SuccessorOf(Holder)].data))

\* C29: in a delete, balance (which recomputes the height first) is called
\* on every remaining node of the path from the root to the removed node,
\* the path into the right subtree down to the successor included, deepest
\* node first, each one after the subtrees below it are already valid; the
\* nodes above the deletion point are part of it.
C29_DeleteRebalancesPath ==
  op = "delete" =>
    /\ [h |-> LastLogged.h, sz |-> LastLogged.sz, n |-> LastLogged.n] = LastPlain
    /\ LastLogged.h = heap /\ LastLogged.n = root /\ LastLogged.sz = size
    /\ BalancedNodes(LastLogged.log) = Reverse(RemainingPath)
    /\ \A i \in 1..Len(LastLogged.log) :
         LastLogged.log[i].kind = "balance" => EntryOk(i)
    /\ Range(RemainingPath) \subseteq DOMAIN heap

\* A delete that removes a node two levels below the old root or deeper,
\* after which the old root is rotated away from the top.
C29_Witness ==
  /\ op = "delete"
  /\ Len(RemainingPath) >= 2
  /\ DOMAIN heap # DOMAIN pre.heap
  /\ root # pre.root
  /\ pre.root \in DOMAIN heap

----------------------------------------------------------------------------
\* C30: every subtree a call of insertNode or deleteNode returns is, at the
\* moment it is returned, a valid AVL subtree with correct cached heights,
\* also when it is returned without going through balance: the new leaf,
\* the surviving child of a removed node, the node left as it is by a
\* duplicate insert.
C30_ReturnedSubtreesValid ==
  op \in {"insert", "delete"} =>
    /\ [h |-> LastLogged.h, sz |-> LastLogged.sz, n |-> LastLogged.n] = LastPlain
    /\ LastLogged.h = heap /\ LastLogged.n = root
    /\ size = IF op = "insert" THEN LastLogged.sz + 1 ELSE LastLogged.sz
    /\ \A i \in 1..Len(LastLogged.log) :
         LastLogged.log[i].kind = "return" => EntryOk(i)

\* A delete that hands back the surviving child of the removed node as it
\* is, and above it a subtree whose top was changed by a rotation.
C30_Witness ==
  /\ op = "delete"
  /\ \E i \in 1..Len(LastLogged.log) :
       /\ LastLogged.log[i].kind = "return"
       /\ ~LastLogged.log[i].balanced
       /\ LastLogged.log[i].node # NULL
  /\ \E i \in 2..Len(LastLogged.log) :
       /\ LastLogged.log[i].kind = "return"
       /\ LastLogged.log[i].balanced
       /\ LastLogged.log[i].node # LastLogged.log[i - 1].node

----------------------------------------------------------------------------
\* C36: in every state reached by insert, delete and clear, isEmpty() is
\* true exactly when count() is 0, and the two queries report it so.
C36_EmptyIffCountZero ==
  /\ isEmpty(root) <=> count(size) = 0
  /\ (op = "isEmpty" => ret = <<count(size) = 0>>)
  /\ (op = "count" => (ret = <<0>> <=> isEmpty(root)))

\* The delete of the last key: the root goes and the counter reaches 0.
C36_Witness ==
  /\ op = "delete"
  /\ ret = <<TRUE>>
  /\ pre.size = 1
  /\ isEmpty(root)
  /\ count(size) = 0

----------------------------------------------------------------------------
\* C38: plain BinarySearchTree: after any sequence of inserts and deletes,
\* inserts of a stored key included, count() is the number of keys stored
\* (the length of inorderTraversal()), and count() is 0 exactly when
\* isEmpty() is true.
C38_BstCountExact ==
  /\ bstCount(size) = Len(bstInorderTraversal(heap, root))
  /\ bstCount(size) = 0 <=> bstIsEmpty(root)

----------------------------------------------------------------------------
\* The stored keys between the two arguments of the last
\* lowestCommonAncestor call, ends included.
KeysBetweenArgs ==
  LET lo == IF arg[1] <= arg[2] THEN arg[1] ELSE arg[2]
      hi == IF arg[1] <= arg[2] THEN arg[2] ELSE arg[1]
  IN  {k \in AbsSet(Now) : lo <= k /\ k <= hi}

\* C37: lowestCommonAncestor(a, b) for any arguments, stored or not,
\* returns null exactly when no stored key lies in [min(a,b), max(a,b)];
\* otherwise it returns the key of the topmost node whose key lies in that
\* interval (every other such node is below it), never a key outside the
\* interval, whether or not a and b are stored.
C37_LcaArbitraryArgs ==
  op = "lowestCommonAncestor" =>
    /\ (ret = <<NULL>>) <=> (KeysBetweenArgs = {})
    /\ KeysBetweenArgs # {} =>
         /\ ret[1] \in KeysBetweenArgs
         /\ \E n \in Reach(heap, root) :
              /\ heap[n].data = ret[1]
              /\ \A m \in ProperAncestors(n) : heap[m].data \notin KeysBetweenArgs
              /\ \A m \in Reach(heap, root) :
                   heap[m].data \in KeysBetweenArgs => m \in Reach(heap, n)

\* A call with two arguments that are not stored, answered with a stored key
\* strictly between them that is not at the root; and the tree has a key
\* outside the interval on each side.
C37_Witness ==
  /\ op = "lowestCommonAncestor"
  /\ arg[1] \notin AbsSet(Now)
  /\ arg[2] \notin AbsSet(Now)
  /\ ret # <<NULL>>
  /\ ret[1] # heap[root].data
  /\ Cardinality(KeysBetweenArgs) >= 2

----------------------------------------------------------------------------
\* The cached height of a child, -1 for an absent one.
CachedHeight(m) == IF m = NULL THEN -1 ELSE heap[m].height

\* Every key is strictly greater than every key of its left subtree and
\* strictly less than every key of its right subtree.
OrderedEverywhere ==
  \A n \in Reach(heap, root) :
    /\ \A k \in KeysUnder(heap, heap[n].left) : k < heap[n].data
    /\ \A k \in KeysUnder(heap, heap[n].right) : k > heap[n].data

\* Every node is in order with its own two children.
OrderedWithChildren ==
  \A n \in Reach(heap, root) :
    /\ heap[n].left # NULL => heap[heap[n].left].data < heap[n].data
    /\ heap[n].right # NULL => heap[heap[n].right].data > heap[n].data

\* C32: on any tree, corrupted ones included, isValidBST() is true exactly
\* when every key is strictly above all keys of its left subtree and
\* strictly below all keys of its right subtree, and isValidAVL() is true
\* exactly when at every node the cached heights of the children differ by
\* at most 1 and the cached height is 1 + the larger of them.
C32_ValidatorsExact ==
  /\ op = "isValidBST" => ret = <<OrderedEverywhere>>
  /\ op = "isValidAVL" =>
       ret = <<\A n \in Reach(heap, root) :
                 LET l == CachedHeight(heap[n].left)
                     r == CachedHeight(heap[n].right)
                 IN  /\ l - r \in {-1, 0, 1}
                     /\ heap[n].height = 1 + (IF l >= r THEN l ELSE r)>>

\* isValidBST() rejects a tree in which every node is in order with its own
\* children: a key deeper down breaks the bound of an ancestor.
C32_Witness ==
  /\ op = "isValidBST"
  /\ ret = <<FALSE>>
  /\ OrderedWithChildren

----------------------------------------------------------------------------
\* The calls of balance made by the last insert or delete, in order.
BalanceCalls == SelectSeq(LastLogged.log, LAMBDA e : e.kind = "balance")

\* The heap at the i-th call of balance and the node it is called on.
CallHeap(i) == BalanceCalls[i].h

CallNode(i) == BalanceCalls[i].node

\* The balance factor the i-th call of balance computes after it has
\* refreshed the height of its node.
FactorAt(i) == getBalanceFactor(updateHeight(CallHeap(i), CallNode(i)), CallNode(i))

\* The rotation the i-th call of balance calls, and what the call returns.
RotationOfCall(i) == RotationAt(CallHeap(i), CallNode(i))

ResultOfCall(i) == balance(CallHeap(i), CallNode(i))

\* C33: whenever balance(node) is entered during an insert or a delete, the
\* balance factor it computes after refreshing the node's height is one of
\* -2..2 and is the true difference of the child heights, so the single or
\* double rotation it applies leaves a valid AVL subtree.
C33_FactorWithinTwo ==
  op \in {"insert", "delete"} =>
    /\ LastLogged.h = heap
    /\ \A i \in 1..Len(BalanceCalls) :
         /\ FactorAt(i) \in -2..2
         /\ FactorAt(i) = TrueHeight(CallHeap(i), CallHeap(i)[CallNode(i)].left)
                            - TrueHeight(CallHeap(i), CallHeap(i)[CallNode(i)].right)
         /\ SubtreeOk(ResultOfCall(i).h, ResultOfCall(i).n)

\* A delete during which balance finds a factor of 2 or -2 at a node above
\* the parent of the removed node.
C33_Witness ==
  /\ op = "delete"
  /\ Len(BalanceCalls) >= 2
  /\ FactorAt(1) \in {-1, 0, 1}
  /\ \E i \in 2..Len(BalanceCalls) : FactorAt(i) \in {-2, 2}

----------------------------------------------------------------------------
\* The nodes the rotation named rot reads through a non-null assertion
\* exist: the left child for rotateRight, the right child for rotateLeft,
\* and for a double rotation the child and the inner rotation's pivot.
PivotsExist(h, node, rot) ==
  CASE rot = "rotateRight"     -> h[node].left # NULL
    [] rot = "rotateLeft"      -> h[node].right # NULL
    [] rot = "rotateLeftRight" ->
         h[node].left # NULL /\ h[h[node].left].right # NULL
    [] rot = "rotateRightLeft" ->
         h[node].right # NULL /\ h[h[node].right].left # NULL
    [] OTHER                   -> TRUE

\* C34: in every insert and delete, each rotation balance calls finds the
\* nodes its non-null assertions name: rotateRight a left child, rotateLeft
\* a right child, rotateLeftRight a left child with a right child,
\* rotateRightLeft a right child with a left child.
C34_AssertionsHold ==
  op \in {"insert", "delete"} =>
    /\ \A i \in 1..Len(BalanceCalls) :
         /\ PivotsExist(CallHeap(i), CallNode(i), RotationOfCall(i))
         /\ ResultOfCall(i) = Rotated(CallHeap(i), CallNode(i), RotationOfCall(i))
    /\ LastLogged.h = heap

\* An insert that ends in a double rotation.
C34_Witness ==
  /\ op = "insert"
  /\ \E i \in 1..Len(BalanceCalls) :
       RotationOfCall(i) \in {"rotateLeftRight", "rotateRightLeft"}

----------------------------------------------------------------------------
\* The calls of balance of the last operation that rotate.
RotatingCalls == {i \in 1..Len(BalanceCalls) : RotationOfCall(i) # "none"}

\* C35: one insert restructures the tree at no more than one node: balance
\* is called at every node of the search path, bottom-up, and at most one of
\* these calls rotates (a single or a double rotation); the calls above it
\* return their node as it is.
C35_InsertRotatesOnce ==
  op = "insert" =>
    /\ LastLogged.h = heap /\ LastLogged.n = root
    /\ Cardinality(RotatingCalls) <= 1
    /\ \A i \in 1..Len(BalanceCalls) :
         ResultOfCall(i) = Rotated(CallHeap(i), CallNode(i), RotationOfCall(i))
    /\ \A i \in RotatingCalls : \A j \in (i + 1)..Len(BalanceCalls) :
         ResultOfCall(j).n = CallNode(j)

\* An insert that rotates at a node below the root; balance is then called
\* again above it and returns its node as it is.
C35_Witness ==
  /\ op = "insert"
  /\ \E i \in RotatingCalls : i + 1 <= Len(BalanceCalls)

----------------------------------------------------------------------------
\* The true heights of the two children of n in the heap h differ by d.
TrueDiff(h, n) ==
  LET l == TrueHeight(h, h[n].left)
      r == TrueHeight(h, h[n].right)
  IN  IF l >= r THEN l - r ELSE r - l

\* No node reachable from r in h has children whose true heights differ by
\* more than d.
DiffAtMost(h, r, d) == \A n \in Reach(h, r) : TrueDiff(h, n) <= d

\* The calls of balance of the last operation that make a double rotation,
\* and the heap between the two rotations of such a call.
DoubleCalls ==
  {i \in 1..Len(BalanceCalls) :
     RotationOfCall(i) \in {"rotateLeftRight", "rotateRightLeft"}}

MidHeap(i) == BetweenRotations(CallHeap(i), CallNode(i), RotationOfCall(i))

\* C31, in the form the specification gives it: at every intermediate step
\* of an insert or delete (a child subtree re-attached and its parent not
\* yet rebalanced; between the two rotations of a double rotation) no node
\* reachable from the root has children whose true heights differ by more
\* than 1.
C31_NeverAboveOne ==
  op \in {"insert", "delete"} =>
    /\ \A i \in 1..Len(BalanceCalls) : DiffAtMost(CallHeap(i), pre.root, 1)
    /\ \A i \in DoubleCalls : DiffAtMost(MidHeap(i), pre.root, 1)

\* C31, in the form that holds: at those intermediate steps the true child
\* heights of a node differ by 2 at most; with a child re-attached and the parent not
\* yet rebalanced, a difference of 2 is found only at that parent or above
\* it; between the two rotations of a double rotation only there or at the
\* node the inner rotation has just put under it; and when the operation
\* returns no node has a difference above 1.
C31_NeverAboveTwo ==
  op \in {"insert", "delete"} =>
    /\ LastLogged.h = heap /\ LastLogged.n = root
    /\ \A i \in 1..Len(BalanceCalls) :
         /\ DiffAtMost(CallHeap(i), pre.root, 2)
         /\ \A n \in Reach(CallHeap(i), pre.root) :
              TrueDiff(CallHeap(i), n) = 2 => CallNode(i) \in Reach(CallHeap(i), n)
    /\ \A i \in DoubleCalls :
         /\ DiffAtMost(MidHeap(i), pre.root, 2)
         /\ \A n \in Reach(MidHeap(i), pre.root) :
              TrueDiff(MidHeap(i), n) = 2 =>
                \/ CallNode(i) \in Reach(MidHeap(i), n)
                \/ n \in {MidHeap(i)[CallNode(i)].left, MidHeap(i)[CallNode(i)].right}
    /\ DiffAtMost(heap, root, 1)

\* An insert with a double rotation: the node being rebalanced has a
\* difference of 2 when balance is called and still between the two
\* rotations.
C31_Witness ==
  /\ op = "insert"
  /\ \E i \in DoubleCalls :
       /\ TrueDiff(CallHeap(i), CallNode(i)) = 2
       /\ TrueDiff(MidHeap(i), CallNode(i)) = 2
       /\ CallNode(i) # pre.root

----------------------------------------------------------------------------
\* SpecBalance against the recursion: at every call of balance made by an
\* insert or a delete, the cached height of the node handed over is one of
\* CachedHeights.
CallCachedHeight(i) == CallHeap(i)[CallNode(i)].height

CallTrueHeight(i) == updateHeight(CallHeap(i), CallNode(i))[CallNode(i)].height

CachedHeightsCoverCalls ==
  op \in {"insert", "delete"} =>
    \A i \in 1..Len(BalanceCalls) :
      CallCachedHeight(i) \in CachedHeights([h |-> CallHeap(i), n |-> CallNode(i)])

====
